---- MODULE Spec2Model ----
(***************************************************************************)
(* A model of quiz_pdf_processor.py: the question reconstructor            *)
(* (parse_questions) and the question matcher / grader (grade_quiz_files). *)
(* Texts are sequences of one-character strings, so that the regular       *)
(* expressions of the source are modelled by what they match.              *)
(***************************************************************************)
EXTENDS Integers, Sequences, FiniteSets, TLC

VARIABLES
    \* grade_quiz_files
    given_submission,       \* parse_questions_for_grading(submission_file), as passed
    given_answer,           \* parse_questions_for_grading(answer_file), as passed
    submission_questions,
    answer_questions,
    submission_file,
    answer_file,
    auto_swapped_files,
    answer_indices_by_key,
    submission_index,       \* loop variable of the content-pairing loop (0-based)
    compared_pairs,
    compared_questions,
    tally,                  \* the counters, index lists and item lists of the grading loop
    pair_index,             \* position of the classification loop in compared_pairs
    result,                 \* the GradingResult returned, None before the return
    gpc,                    \* position in grade_quiz_files
    \* parse_questions
    questions,              \* the output sequence
    current,                \* the in-progress question, Nothing when there is none
    line,                   \* the line the loop processed last, Nothing before the first
    lines_read,             \* number of lines the loop has taken from the stream
    returned,               \* the list parse_questions returns, <<>> before the return
    ppc,                    \* position in parse_questions
    \* finalize_answer and parse_pdf_questions_for_grading
    parsed_questions,       \* the questions finalize_answer is given, then as it leaves them
    rows,                   \* the QuizQuestionState rows built so far
    spc,                    \* position: "finalize", "rows", "returned"
    \* deduplicate_questions
    duplicated,             \* the list deduplicate_questions is given
    deduped_once,           \* the list it returns
    deduped_twice,          \* the list it returns when given deduped_once
    dpc,                    \* position: "first", "second", "done"
    \* repair_fragmented_text
    fragmented,             \* the text repair_fragmented_text is given
    repaired,               \* the text it returns
    rpc,                    \* position: "call", "done"
    \* process_folder
    input_dir,              \* the PDF files of the folder, each with what parse_questions finds
    pdf_files,
    results,
    output_files,           \* the PDF files write_output_files has written documents for
    fpc,                    \* position: "glob", "loop", "returned", "raised"
    \* match_option_line
    candidate_text,         \* the cleaned text match_option_line is given
    candidate_match,        \* the match it returns, Nothing for None
    mpc,                    \* position: "call", "returned"
    \* QuizProcessorApp
    buttons,                \* the state set_running gave the action buttons
    started,                \* the action of the worker thread, None when none was started
    outcome,                \* what the action does: it returns, or raises a message
    wpc,                    \* position of the worker thread
    error_cell,             \* the variable 'error' of worker(), Unbound outside the handler
    after_queue,            \* the callbacks root.after(0, ...) has scheduled, in order
    dialog,                 \* the message of the last messagebox.showerror, None if none
    callback_exception      \* the exception the last callback ended with, None if none

gradeVars == <<given_submission, given_answer, submission_questions, answer_questions,
               submission_file, answer_file, auto_swapped_files, answer_indices_by_key,
               submission_index, compared_pairs, compared_questions, tally, pair_index,
               result, gpc>>

parseVars == <<questions, current, line, lines_read, returned, ppc>>

stateVars == <<parsed_questions, rows, spc>>

dedupVars == <<duplicated, deduped_once, deduped_twice, dpc>>

repairVars == <<fragmented, repaired, rpc>>

folderVars == <<input_dir, pdf_files, results, output_files, fpc>>

matchVars == <<candidate_text, candidate_match, mpc>>

guiVars == <<buttons, started, outcome, wpc, error_cell, after_queue, dialog,
             callback_exception>>

vars == <<gradeVars, parseVars, stateVars, dedupVars, repairVars, folderVars, matchVars,
          guiVars>>

\* what each function of the source leaves alone
notGradeVars ==
    <<parseVars, stateVars, dedupVars, repairVars, folderVars, matchVars, guiVars>>

notParseVars ==
    <<gradeVars, stateVars, dedupVars, repairVars, folderVars, matchVars, guiVars>>

notStateVars ==
    <<gradeVars, parseVars, dedupVars, repairVars, folderVars, matchVars, guiVars>>

notDedupVars ==
    <<gradeVars, parseVars, stateVars, repairVars, folderVars, matchVars, guiVars>>

notRepairVars ==
    <<gradeVars, parseVars, stateVars, dedupVars, folderVars, matchVars, guiVars>>

notFolderVars ==
    <<gradeVars, parseVars, stateVars, dedupVars, repairVars, matchVars, guiVars>>

notMatchVars ==
    <<gradeVars, parseVars, stateVars, dedupVars, repairVars, folderVars, guiVars>>

notGuiVars ==
    <<gradeVars, parseVars, stateVars, dedupVars, repairVars, folderVars, matchVars>>

-----------------------------------------------------------------------------
(* Bounds of the model *)

\* longest pair of same-question sequences with every combination of highlights
MaxSame == 3
\* longest sequence of the sequences drawn freely over MixedQuestions
MaxLen == 3
\* longest sequence of the role-swap shapes
MaxSwapLen == 7
\* longest sequence whose key is given in every order
MaxPerm == 3
\* longest stream of styled lines
MaxLines == 6
\* longest list given to deduplicate_questions
MaxDedup == 3
\* most tokens of a text given to repair_fragmented_text
MaxTokens == 4
\* most questions recognized in one PDF of a folder
MaxQuestions == 2
\* most callbacks scheduled and not yet run when an action schedules a log line
MaxPending == 3

-----------------------------------------------------------------------------
(* Python values *)

None == "None"

\* None where the model holds a record: Optional[QuestionData], Optional[re.Match]
Nothing == [none |-> TRUE]

\* grade_quiz_files is not running
GradeIdle ==
    /\ given_submission = <<>>
    /\ given_answer = <<>>
    /\ submission_questions = <<>>
    /\ answer_questions = <<>>
    /\ submission_file = None
    /\ answer_file = None
    /\ auto_swapped_files = FALSE
    /\ answer_indices_by_key = <<>>
    /\ submission_index = 0
    /\ compared_pairs = <<>>
    /\ compared_questions = 0
    /\ tally = None
    /\ pair_index = 0
    /\ result = None
    /\ gpc = "idle"

\* parse_questions is not running
ParseIdle ==
    /\ questions = <<>>
    /\ current = Nothing
    /\ line = Nothing
    /\ lines_read = 0
    /\ returned = <<>>
    /\ ppc = "idle"

\* finalize_answer and parse_pdf_questions_for_grading are not running
StateIdle ==
    /\ parsed_questions = <<>>
    /\ rows = <<>>
    /\ spc = "idle"

\* deduplicate_questions is not running
DedupIdle ==
    /\ duplicated = <<>>
    /\ deduped_once = <<>>
    /\ deduped_twice = <<>>
    /\ dpc = "idle"

\* repair_fragmented_text is not running
RepairIdle ==
    /\ fragmented = <<>>
    /\ repaired = <<>>
    /\ rpc = "idle"

\* process_folder is not running
FolderIdle ==
    /\ input_dir = {}
    /\ pdf_files = <<>>
    /\ results = <<>>
    /\ output_files = {}
    /\ fpc = "idle"

\* match_option_line is not running
MatchIdle ==
    /\ candidate_text = <<>>
    /\ candidate_match = Nothing
    /\ mpc = "idle"

\* variable 'error' of worker() outside the except block
Unbound == "unbound"

\* the application is not running
GuiIdle ==
    /\ buttons = "normal"
    /\ started = None
    /\ outcome = None
    /\ wpc = "idle"
    /\ error_cell = Unbound
    /\ after_queue = <<>>
    /\ dialog = None
    /\ callback_exception = None

Min(a, b) == IF a <= b THEN a ELSE b

Max(a, b) == IF a >= b THEN a ELSE b

-----------------------------------------------------------------------------
(* Characters and strings *)

\* the characters \s matches, among those of the model's texts
WhiteSpace == {" ", "\t"}

\* the characters \d matches
DigitChars == <<"0", "1", "2", "3", "4", "5", "6", "7", "8", "9">>

Digits == {DigitChars[i] : i \in 1..10}

UpperLetters == <<"A", "B", "C", "D", "E", "F", "G", "H", "I", "J", "K", "L", "M",
                  "N", "O", "P", "Q", "R", "S", "T", "U", "V", "W", "X", "Y", "Z",
                  "Â", "Ư", "Ơ", "Ê", "Ô", "Ể", "Ỹ", "Ậ">>

LowerLetters == <<"a", "b", "c", "d", "e", "f", "g", "h", "i", "j", "k", "l", "m",
                  "n", "o", "p", "q", "r", "s", "t", "u", "v", "w", "x", "y", "z",
                  "â", "ư", "ơ", "ê", "ô", "ể", "ỹ", "ậ">>

\* str.lower() on one character
LowerChar(c) ==
    IF \E i \in 1..Len(UpperLetters) : UpperLetters[i] = c
    THEN LowerLetters[CHOOSE i \in 1..Len(UpperLetters) : UpperLetters[i] = c]
    ELSE c

\* str.lower()
Lower(s) == [i \in 1..Len(s) |-> LowerChar(s[i])]

\* the first index j >= i with j past the end of s or s[j] not in S
SkipSet(s, i, S) ==
    CHOOSE j \in i..(Len(s) + 1) :
        /\ (j = Len(s) + 1 \/ s[j] \notin S)
        /\ \A k \in i..(j - 1) : s[k] \in S

\* str.strip()
Strip(s) ==
    LET a == SkipSet(s, 1, WhiteSpace)
    IN  IF a > Len(s) THEN <<>>
        ELSE LET b == CHOOSE j \in a..Len(s) :
                          /\ s[j] \notin WhiteSpace
                          /\ \A k \in (j + 1)..Len(s) : s[k] \in WhiteSpace
             IN  SubSeq(s, a, b)

RECURSIVE CollapseFrom(_, _)
CollapseFrom(s, i) ==
    IF i > Len(s) THEN <<>>
    ELSE IF s[i] \in WhiteSpace
         THEN <<" ">> \o CollapseFrom(s, SkipSet(s, i, WhiteSpace))
         ELSE <<s[i]>> \o CollapseFrom(s, i + 1)

\* re.sub(r"\s+", " ", s)
CollapseWhiteSpace(s) == CollapseFrom(s, 1)

\* whether s starts, case-insensitively, with the lower-case word w
StartsWithWord(s, w) ==
    /\ Len(s) >= Len(w)
    /\ \A k \in 1..Len(w) : LowerChar(s[k]) = w[k]

\* the index after \s*\d+[\.:\)]? matched from index i of s, 0 when it does not match
AfterNumber(s, i) ==
    LET j == SkipSet(s, i, WhiteSpace)
        k == SkipSet(s, j, Digits)
    IN  IF k = j THEN 0
        ELSE IF k <= Len(s) /\ s[k] \in {".", ":", ")"} THEN k + 1 ELSE k

\* the index after (?:Câu\s*\d+[\.:\)]?|Question\s*\d+[\.:\)]?|\d+[\.)]) matched,
\* case-insensitively, at the start of s; 0 when no alternative matches
NumberingEnd(s) ==
    IF StartsWithWord(s, <<"c", "â", "u">>) /\ AfterNumber(s, 4) > 0
        THEN AfterNumber(s, 4)
    ELSE IF StartsWithWord(s, <<"q", "u", "e", "s", "t", "i", "o", "n">>)
            /\ AfterNumber(s, 9) > 0
        THEN AfterNumber(s, 9)
    ELSE LET d == SkipSet(s, 1, Digits)
         IN  IF d > 1 /\ d <= Len(s) /\ s[d] \in {".", ")"} THEN d + 1 ELSE 0

normalize_question_text(question) ==
    LET e == NumberingEnd(question)
    IN  IF e = 0 THEN Strip(question)
        ELSE Strip(SubSeq(question, SkipSet(question, e, WhiteSpace), Len(question)))

normalize_question_key(question) ==
    Lower(Strip(CollapseWhiteSpace(normalize_question_text(question))))

-----------------------------------------------------------------------------
(* The question reconstructor: records *)

LineData(text, is_bold, color_int, page_number, x0, y0) ==
    [text |-> text, is_bold |-> is_bold, color_int |-> color_int,
     page_number |-> page_number, x0 |-> x0, y0 |-> y0]

OptionData(label, text, styled_line) ==
    [label |-> label, text |-> text, emphasized |-> FALSE, is_bold |-> styled_line.is_bold,
     color_int |-> styled_line.color_int, page_number |-> styled_line.page_number,
     x0 |-> styled_line.x0, y0 |-> styled_line.y0]

QuestionData(question, styled_line) ==
    [question |-> question, options |-> <<>>, answer_label |-> None,
     page_number |-> styled_line.page_number, x0 |-> styled_line.x0, y0 |-> styled_line.y0]

-----------------------------------------------------------------------------
(* The question reconstructor: the patterns *)

\* whether the lower-case word w matches, case-insensitively, at index i of s
WordAt(s, i, w) ==
    /\ i + Len(w) - 1 <= Len(s)
    /\ \A k \in 1..Len(w) : LowerChar(s[i + k - 1]) = w[k]

\* the index after \s*\d+\s* matched from index i of s, 0 when it does not match
AfterSpacedNumber(s, i) ==
    LET j == SkipSet(s, i, WhiteSpace)
        k == SkipSet(s, j, Digits)
    IN  IF k = j THEN 0 ELSE SkipSet(s, k, WhiteSpace)

\* Downloaded\s+by matched, case-insensitively, at index i of s
DownloadedByAt(s, i) ==
    /\ WordAt(s, i, <<"d", "o", "w", "n", "l", "o", "a", "d", "e", "d">>)
    /\ SkipSet(s, i + 10, WhiteSpace) > i + 10
    /\ WordAt(s, SkipSet(s, i + 10, WhiteSpace), <<"b", "y">>)

\* l[O0]M[oO]ARcPSD matched, case-insensitively, at index i of s
WatermarkAt(s, i) ==
    /\ i + 9 <= Len(s)
    /\ LowerChar(s[i]) = "l"
    /\ LowerChar(s[i + 1]) \in {"o", "0"}
    /\ WordAt(s, i + 2, <<"m", "o", "a", "r", "c", "p", "s", "d">>)

\* INLINE_NOISE_PATTERN matched at index i of s
InlineNoiseAt(s, i) ==
    \/ DownloadedByAt(s, i)
    \/ WordAt(s, i, <<"b", "i", "n", "h", "p", "r", "o", "d", "o", "t", "c", "o", "m",
                      "@", "g", "m", "a", "i", "l", ".", "c", "o", "m">>)
    \/ WatermarkAt(s, i)

\* INLINE_NOISE_PATTERN.sub("", s): the first match runs to the end of the line
RemoveInlineNoise(s) ==
    IF \E i \in 1..Len(s) : InlineNoiseAt(s, i)
    THEN LET first == CHOOSE i \in 1..Len(s) :
                          /\ InlineNoiseAt(s, i)
                          /\ \A j \in 1..(i - 1) : ~InlineNoiseAt(s, j)
         IN  SubSeq(s, 1, first - 1)
    ELSE s

clean_text_noise(text) ==
    Strip(CollapseWhiteSpace(Strip(RemoveInlineNoise(text))))

\* FULL_NOISE_PATTERN.match(s)
FullNoise(s) ==
    \/ DownloadedByAt(s, 1)
    \/ LET a == AfterSpacedNumber(s, 1)
       IN  /\ a > 0
           /\ a <= Len(s)
           /\ s[a] = "/"
           /\ AfterSpacedNumber(s, a + 1) = Len(s) + 1
    \/ LET j == SkipSet(s, 1, WhiteSpace)
       IN  /\ WordAt(s, j, <<"t", "r", "a", "n", "g">>)
           /\ AfterSpacedNumber(s, j + 5) = Len(s) + 1

\* HEADER_NOISE_PATTERN.match(s)
HeaderNoise(s) ==
    \/ /\ WordAt(s, 1, <<"c", "h", "ư", "ơ", "n", "g">>)
       /\ AfterSpacedNumber(s, 7) = Len(s)
       /\ s[Len(s)] = ":"
    \/ /\ WordAt(s, 1, <<"l", "t", "t", "n">>)
       /\ LET a == AfterSpacedNumber(s, 5)
          IN  \/ a = Len(s) + 1
              \/ a = Len(s) /\ s[a] = ":"

\* QUESTION_PATTERN.match(s): the numbering, then at least one white space
QuestionStart(s) ==
    LET e == NumberingEnd(s)
    IN  e > 0 /\ e <= Len(s) /\ s[e] \in WhiteSpace

\* the separators [\.:\)\-] of the option patterns
OptionSeparators == {".", ":", ")", "-"}

\* group(1) and group(2) of a match of an option pattern: after the label and its
\* separator, group(2) starts after the white space that leaves it a character
OptionGroups(s) ==
    [label |-> s[1], text |-> SubSeq(s, Min(SkipSet(s, 3, WhiteSpace), Len(s)), Len(s))]

\* UPPER_OPTION_PATTERN.match(s)
UpperOption(s) ==
    /\ Len(s) >= 3
    /\ s[1] \in {"A", "B", "C", "D"}
    /\ s[2] \in OptionSeparators \cup WhiteSpace

\* mutant: the lower-case pattern takes white space as a separator too
LowerOptionWithSpace(s) ==
    /\ Len(s) >= 3
    /\ s[1] \in {"a", "b", "c", "d"}
    /\ s[2] \in OptionSeparators \cup WhiteSpace

\* LOWER_OPTION_PATTERN.match(s)
LowerOption(s) ==
    /\ Len(s) >= 3
    /\ s[1] \in {"a", "b", "c", "d"}
    /\ s[2] \in OptionSeparators

match_option_line(text) ==
    IF UpperOption(text) THEN OptionGroups(text)
    ELSE IF LowerOption(text) THEN OptionGroups(text)
    ELSE Nothing

\* str.upper() on one character
UpperChar(c) ==
    IF \E i \in 1..Len(LowerLetters) : LowerLetters[i] = c
    THEN UpperLetters[CHOOSE i \in 1..Len(LowerLetters) : LowerLetters[i] = c]
    ELSE c

-----------------------------------------------------------------------------
(* The question reconstructor: repair_fragmented_text *)

\* the characters [A-Za-zÀ-ỹ] matches, among those of the model's texts
AlphaChars ==
    {UpperLetters[i] : i \in 1..Len(UpperLetters)}
        \cup {LowerLetters[i] : i \in 1..Len(LowerLetters)}

\* the first index j >= i with j past the end of s or s[j] in S
SkipUntil(s, i, S) ==
    CHOOSE j \in i..(Len(s) + 1) :
        /\ (j = Len(s) + 1 \/ s[j] \in S)
        /\ \A k \in i..(j - 1) : s[k] \notin S

RECURSIVE SplitFrom(_, _)
SplitFrom(s, i) ==
    LET j == SkipSet(s, i, WhiteSpace)
    IN  IF j > Len(s) THEN <<>>
        ELSE LET k == SkipUntil(s, j, WhiteSpace)
             IN  <<SubSeq(s, j, k - 1)>> \o SplitFrom(s, k)

\* str.split()
Split(s) == SplitFrom(s, 1)

RECURSIVE Concat(_)
\* "".join(tokens)
Concat(tokens) ==
    IF tokens = <<>> THEN <<>> ELSE Head(tokens) \o Concat(Tail(tokens))

RECURSIVE Join(_)
\* " ".join(tokens)
Join(tokens) ==
    IF tokens = <<>> THEN <<>>
    ELSE IF Len(tokens) = 1 THEN Head(tokens)
    ELSE Head(tokens) \o <<" ">> \o Join(Tail(tokens))

RECURSIVE SumLen(_)
SumLen(tokens) ==
    IF tokens = <<>> THEN 0 ELSE Len(Head(tokens)) + SumLen(Tail(tokens))

\* re.fullmatch(r"[A-Za-zÀ-ỹ]+", token)
AlphaToken(token) ==
    /\ Len(token) >= 1
    /\ \A k \in 1..Len(token) : token[k] \in AlphaChars

\* mutant: the buffer is never joined
flush_buffer_unjoined(rebuilt, buffer) == rebuilt \o buffer

\* flush_buffer: rebuilt after the buffer is flushed into it
flush_buffer(rebuilt, buffer) ==
    IF buffer = <<>> THEN rebuilt
    ELSE LET has_single_char == \E k \in 1..Len(buffer) : Len(buffer[k]) = 1
             all_alpha == \A k \in 1..Len(buffer) : AlphaToken(buffer[k])
             avg_len_at_most_2 == SumLen(buffer) <= 2 * Len(buffer)
         IN  IF all_alpha /\ has_single_char /\ avg_len_at_most_2
             THEN Append(rebuilt, Concat(buffer))
             ELSE rebuilt \o buffer

RECURSIVE RepairFrom(_, _, _, _)
RepairFrom(tokens, i, rebuilt, buffer) ==
    IF i > Len(tokens) THEN flush_buffer(rebuilt, buffer)
    ELSE IF AlphaToken(tokens[i]) /\ Len(tokens[i]) <= 2
         THEN RepairFrom(tokens, i + 1, rebuilt, Append(buffer, tokens[i]))
         ELSE RepairFrom(tokens, i + 1,
                         Append(flush_buffer(rebuilt, buffer), tokens[i]), <<>>)

\* mutant: texts of fewer than 3 tokens are repaired too
repair_short_text(text) == Join(RepairFrom(Split(text), 1, <<>>, <<>>))

repair_fragmented_text(text) ==
    LET tokens == Split(text)
    IN  IF Len(tokens) < 3 THEN text
        ELSE Join(RepairFrom(tokens, 1, <<>>, <<>>))

-----------------------------------------------------------------------------
(* The question reconstructor: merging, ordering, answer, duplicates *)

should_append_to_last_option(last_option, styled_line) ==
    IF styled_line.page_number # last_option.page_number THEN FALSE
    ELSE IF styled_line.y0 - last_option.y0 > 26 THEN FALSE
    ELSE IF styled_line.x0 - last_option.x0 > 48 THEN FALSE
    ELSE IF /\ styled_line.color_int # 0
            /\ last_option.color_int # 0
            /\ styled_line.color_int # last_option.color_int THEN FALSE
    ELSE IF match_option_line(styled_line.text) # Nothing \/ QuestionStart(styled_line.text) THEN FALSE
    ELSE TRUE

should_append_to_question(question, styled_line) ==
    IF question.page_number = -1 THEN TRUE
    ELSE IF styled_line.page_number # question.page_number THEN FALSE
    ELSE IF styled_line.y0 - question.y0 > 28 THEN FALSE
    ELSE IF styled_line.x0 - question.x0 > 64 THEN FALSE
    ELSE IF match_option_line(styled_line.text) # Nothing \/ HeaderNoise(styled_line.text) THEN FALSE
    ELSE TRUE

\* mapping[label] of order_options: the last option of the list with that label
MappedOption(options, label) ==
    options[CHOOSE i \in 1..Len(options) :
                /\ options[i].label = label
                /\ \A j \in (i + 1)..Len(options) : options[j].label # label]

order_options(options) ==
    LET expected == <<"A", "B", "C", "D">>
    IN  IF \A k \in 1..4 : \E i \in 1..Len(options) : options[i].label = expected[k]
        THEN [k \in 1..4 |-> MappedOption(options, expected[k])]
        ELSE options

\* the options with emphasized set for the answer label (None: no option emphasized)
Emphasized(options, answer_label) ==
    [i \in 1..Len(options) |->
        [options[i] EXCEPT !.emphasized = (options[i].label = answer_label)]]

\* mutant: among equally frequent colors, the first one to reach the maximum
\* frequency in option order, the one whose last option comes first
first_to_reach_maximum(options) ==
    IF options = <<>> THEN 0
    ELSE LET count(c) == Cardinality({k \in 1..Len(options) : options[k].color_int = c})
             most == {k \in 1..Len(options) :
                         \A j \in 1..Len(options) :
                             count(options[j].color_int) <= count(options[k].color_int)}
             last(c) == CHOOSE k \in most :
                            /\ options[k].color_int = c
                            /\ \A j \in most : options[j].color_int = c => j <= k
             first == CHOOSE k \in most :
                          \A j \in most :
                              last(options[k].color_int) <= last(options[j].color_int)
         IN  options[first].color_int

\* Counter(color_values).most_common(1)[0][0]: the most frequent color, the first
\* one met among equally frequent ones
dominant_color(options) ==
    IF options = <<>> THEN 0
    ELSE LET count(c) == Cardinality({i \in 1..Len(options) : options[i].color_int = c})
             first == CHOOSE i \in 1..Len(options) :
                          /\ \A j \in 1..Len(options) :
                                count(options[j].color_int) <= count(options[i].color_int)
                          /\ \A j \in 1..(i - 1) :
                                count(options[j].color_int) < count(options[i].color_int)
         IN  options[first].color_int

\* mutant: the color minority is looked at before the bold options
finalize_answer_color_first(question) ==
    LET options == question.options
        bold == SelectSeq(options, LAMBDA opt : opt.is_bold)
        dominant == dominant_color(options)
        non_dominant == SelectSeq(options, LAMBDA opt : opt.color_int # dominant)
        answer_label == IF Len(non_dominant) = 1 THEN non_dominant[1].label
                        ELSE IF Len(bold) = 1 THEN bold[1].label
                        ELSE None
    IN  [question EXCEPT !.answer_label = answer_label,
                         !.options = Emphasized(options, answer_label)]

\* mutant: options of color 0 are left out of the color minority
finalize_answer_neutral(question) ==
    LET options == question.options
        bold == SelectSeq(options, LAMBDA opt : opt.is_bold)
        dominant == dominant_color(options)
        non_dominant == SelectSeq(options,
                            LAMBDA opt : opt.color_int # dominant /\ opt.color_int # 0)
        answer_label == IF Len(bold) = 1 THEN bold[1].label
                        ELSE IF Len(non_dominant) = 1 THEN non_dominant[1].label
                        ELSE None
    IN  [question EXCEPT !.answer_label = answer_label,
                         !.options = Emphasized(options, answer_label)]

finalize_answer(question) ==
    LET options == question.options
        bold == SelectSeq(options, LAMBDA opt : opt.is_bold)
        dominant == dominant_color(options)
        non_dominant == SelectSeq(options, LAMBDA opt : opt.color_int # dominant)
        answer_label == IF Len(bold) = 1 THEN bold[1].label
                        ELSE IF Len(non_dominant) = 1 THEN non_dominant[1].label
                        ELSE None
    IN  [question EXCEPT !.answer_label = answer_label,
                         !.options = Emphasized(options, answer_label)]

\* mutant: the answer is part of the key
DedupKeyWithAnswer(question) ==
    <<Lower(Strip(CollapseWhiteSpace(question.question))),
      question.answer_label,
      [i \in 1..Len(question.options) |->
          <<question.options[i].label,
            Lower(Strip(CollapseWhiteSpace(question.options[i].text)))>>]>>

\* the key under which deduplicate_questions has seen a question
DedupKey(question) ==
    <<Lower(Strip(CollapseWhiteSpace(question.question))),
      [i \in 1..Len(question.options) |->
          <<question.options[i].label,
            Lower(Strip(CollapseWhiteSpace(question.options[i].text)))>>]>>

RECURSIVE DedupFrom(_, _, _, _)
DedupFrom(question_list, i, seen, deduped) ==
    IF i > Len(question_list) THEN deduped
    ELSE IF DedupKey(question_list[i]) \in seen
         THEN DedupFrom(question_list, i + 1, seen, deduped)
         ELSE DedupFrom(question_list, i + 1, seen \cup {DedupKey(question_list[i])},
                        Append(deduped, question_list[i]))

RECURSIVE DedupSkipping(_, _, _, _)
\* mutant: dropping a duplicate skips the check of the question after it
DedupSkipping(question_list, i, seen, deduped) ==
    IF i > Len(question_list) THEN deduped
    ELSE IF DedupKey(question_list[i]) \in seen
         THEN IF i + 1 > Len(question_list) THEN deduped
              ELSE DedupSkipping(question_list, i + 2, seen,
                                 Append(deduped, question_list[i + 1]))
         ELSE DedupSkipping(question_list, i + 1, seen \cup {DedupKey(question_list[i])},
                            Append(deduped, question_list[i]))

\* mutant: the loop that removes from the list it walks
deduplicate_skipping(question_list) == DedupSkipping(question_list, 1, {}, <<>>)

deduplicate_questions(question_list) == DedupFrom(question_list, 1, {}, <<>>)

\* a question of 4 options as it is appended to the output
Emitted(question) ==
    finalize_answer([question EXCEPT !.options = order_options(question.options)])

\* mutant: a question in progress is emitted with the options it has
WithIncomplete(output, question) ==
    IF question # Nothing /\ Len(question.options) >= 1
    THEN Append(output, question)
    ELSE output

\* the output after the in-progress question is appended if it has 4 options
WithComplete(output, question) ==
    IF question # Nothing /\ Len(question.options) = 4
    THEN Append(output, Emitted(question))
    ELSE output

-----------------------------------------------------------------------------
(* The question reconstructor: the lines of the model's streams *)

\* "Câu 1: x", a question start
QuestionLineData ==
    LineData(<<"C", "â", "u", " ", "1", ":", " ", "x">>, FALSE, 0, 1, 0, 0)

\* "2) y", a question start without a word
NumberedLineData ==
    LineData(<<"2", ")", " ", "y">>, FALSE, 0, 1, 0, 60)

\* "A. a"
OptionALineData ==
    LineData(<<"A", ".", " ", "a">>, FALSE, 0, 1, 10, 20)

\* "b) b", bold
OptionBLineData ==
    LineData(<<"b", ")", " ", "b">>, TRUE, 0, 1, 10, 40)

\* "C  c", colored, far down the page
OptionCLineData ==
    LineData(<<"C", " ", " ", "c">>, FALSE, 5, 1, 10, 100)

\* "D- d lOMoARcPSD|1", an option followed by a watermark
OptionDLineData ==
    LineData(<<"D", "-", " ", "d", " ", "l", "O", "M", "o", "A", "R", "c", "P", "S", "D",
               "|", "1">>, FALSE, 0, 1, 10, 80)

\* "t u v", fragmented text
FragmentLineData ==
    LineData(<<"t", " ", "u", " ", "v">>, FALSE, 0, 1, 0, 25)

\* "w", colored, on the next page
OtherPageLineData ==
    LineData(<<"w">>, FALSE, 7, 2, 0, 10)

\* "Trang 2", a page number
PageNumberLineData ==
    LineData(<<"T", "r", "a", "n", "g", " ", "2">>, FALSE, 0, 1, 0, 300)

\* "LTTN 1:", a header
HeaderLineData ==
    LineData(<<"L", "T", "T", "N", " ", "1", ":">>, TRUE, 0, 1, 0, 0)

Lines ==
    {QuestionLineData, NumberedLineData, OptionALineData, OptionBLineData,
     OptionCLineData, OptionDLineData, FragmentLineData, OtherPageLineData,
     PageNumberLineData, HeaderLineData}

-----------------------------------------------------------------------------
(* The question reconstructor: parse_questions *)

\* the loop takes the next line of the stream
NextLine(l) ==
    /\ ppc = "lines"
    /\ lines_read < MaxLines
    /\ line' = l
    /\ lines_read' = lines_read + 1

\* lines 263-268: a line that is empty after cleaning, or noise, is skipped
Noise(text) ==
    text = <<>> \/ FullNoise(text) \/ HeaderNoise(text)

Cleaned == [l \in Lines |-> clean_text_noise(l.text)]

NoiseLine == [l \in Lines |-> Noise(Cleaned[l])]

QuestionStartLine == [l \in Lines |-> QuestionStart(Cleaned[l])]

OptionMatchLine == [l \in Lines |-> match_option_line(Cleaned[l])]

SkipLine ==
    \E l \in Lines :
        /\ NextLine(l)
        /\ NoiseLine[l]
        /\ UNCHANGED <<questions, current, returned, ppc, notParseVars>>

\* mutant: the new question keeps the options of the question in progress
QuestionLineKeepingOptions ==
    \E l \in Lines :
        LET text == Cleaned[l]
        IN  /\ NextLine(l)
            /\ ~NoiseLine[l]
            /\ QuestionStartLine[l]
            /\ questions' = WithComplete(questions, current)
            /\ current' = IF current = Nothing THEN QuestionData(text, l)
                          ELSE [QuestionData(text, l) EXCEPT !.options = current.options]
            /\ UNCHANGED <<returned, ppc, notParseVars>>

\* lines 270-281
QuestionLine ==
    \E l \in Lines :
        LET text == Cleaned[l]
        IN  /\ NextLine(l)
            /\ ~NoiseLine[l]
            /\ QuestionStartLine[l]
            /\ questions' = WithComplete(questions, current)
            /\ current' = QuestionData(text, l)
            /\ UNCHANGED <<returned, ppc, notParseVars>>

\* mutant: a group of 4 options is emitted whatever its question text
OptionLineEmittingBare ==
    \E l \in Lines :
        LET text == Cleaned[l]
            option_match == OptionMatchLine[l]
            label == UpperChar(option_match.label)
            option_text == Strip(option_match.text)
            opened == IF current = Nothing THEN QuestionData(<<>>, l) ELSE current
            option == OptionData(label, repair_fragmented_text(option_text), l)
            appended == [opened EXCEPT !.options = Append(@, option)]
            stripped == [appended EXCEPT !.question = Strip(@)]
        IN  /\ NextLine(l)
            /\ ~NoiseLine[l]
            /\ ~QuestionStartLine[l]
            /\ option_match # Nothing
            /\ IF label \notin {"A", "B", "C", "D"}
               THEN UNCHANGED <<questions, current>>
               ELSE IF Len(appended.options) = 4
               THEN /\ questions' = Append(questions, Emitted(stripped))
                    /\ current' = Nothing
               ELSE /\ current' = appended
                    /\ UNCHANGED questions
            /\ UNCHANGED <<returned, ppc, notParseVars>>

\* mutant: the question stays in progress after its 4th option
OptionLineNotClearing ==
    \E l \in Lines :
        LET text == Cleaned[l]
            option_match == OptionMatchLine[l]
            label == UpperChar(option_match.label)
            option_text == Strip(option_match.text)
            opened == IF current = Nothing THEN QuestionData(<<>>, l) ELSE current
            option == OptionData(label, repair_fragmented_text(option_text), l)
            appended == [opened EXCEPT !.options = Append(@, option)]
            stripped == [appended EXCEPT !.question = Strip(@)]
        IN  /\ NextLine(l)
            /\ ~NoiseLine[l]
            /\ ~QuestionStartLine[l]
            /\ option_match # Nothing
            /\ IF label \notin {"A", "B", "C", "D"}
               THEN UNCHANGED <<questions, current>>
               ELSE IF Len(appended.options) = 4
               THEN /\ questions' = IF stripped.question # <<>>
                                    THEN Append(questions, Emitted(stripped))
                                    ELSE questions
                    /\ current' = stripped
               ELSE /\ current' = appended
                    /\ UNCHANGED questions
            /\ UNCHANGED <<returned, ppc, notParseVars>>

\* lines 283-318
OptionLine ==
    \E l \in Lines :
        LET text == Cleaned[l]
            option_match == OptionMatchLine[l]
            label == UpperChar(option_match.label)
            option_text == Strip(option_match.text)
            opened == IF current = Nothing THEN QuestionData(<<>>, l) ELSE current
            option == OptionData(label, repair_fragmented_text(option_text), l)
            appended == [opened EXCEPT !.options = Append(@, option)]
            stripped == [appended EXCEPT !.question = Strip(@)]
        IN  /\ NextLine(l)
            /\ ~NoiseLine[l]
            /\ ~QuestionStartLine[l]
            /\ option_match # Nothing
            /\ IF label \notin {"A", "B", "C", "D"}
               THEN UNCHANGED <<questions, current>>
               ELSE IF Len(appended.options) = 4
               THEN /\ questions' = IF stripped.question # <<>>
                                    THEN Append(questions, Emitted(stripped))
                                    ELSE questions
                    /\ current' = Nothing
               ELSE /\ current' = appended
                    /\ UNCHANGED questions
            /\ UNCHANGED <<returned, ppc, notParseVars>>

\* mutant: a continuation line with no question in progress is dropped
ContinuationLineNotCreating ==
    \E l \in Lines :
        LET text == Cleaned[l]
            last == Len(current.options)
            merged_text == Strip(current.options[last].text \o <<" ">> \o text)
        IN  /\ NextLine(l)
            /\ ~NoiseLine[l]
            /\ ~QuestionStartLine[l]
            /\ OptionMatchLine[l] = Nothing
            /\ current' =
                IF current = Nothing THEN Nothing
                ELSE IF current.options # <<>>
                THEN IF should_append_to_last_option(current.options[last], l)
                     THEN [current EXCEPT
                              !.options[last].text = repair_fragmented_text(merged_text),
                              !.options[last].x0 = l.x0,
                              !.options[last].y0 = l.y0]
                     ELSE current
                ELSE IF should_append_to_question(current, l)
                     THEN [current EXCEPT
                              !.question = Strip(current.question \o <<" ">> \o text),
                              !.x0 = l.x0,
                              !.y0 = l.y0]
                     ELSE current
            /\ UNCHANGED <<questions, returned, ppc, notParseVars>>

\* lines 320-339
ContinuationLine ==
    \E l \in Lines :
        LET text == Cleaned[l]
            last == Len(current.options)
            merged_text == Strip(current.options[last].text \o <<" ">> \o text)
        IN  /\ NextLine(l)
            /\ ~NoiseLine[l]
            /\ ~QuestionStartLine[l]
            /\ OptionMatchLine[l] = Nothing
            /\ current' =
                IF current = Nothing THEN QuestionData(text, l)
                ELSE IF current.options # <<>>
                THEN IF should_append_to_last_option(current.options[last], l)
                     THEN [current EXCEPT
                              !.options[last].text = repair_fragmented_text(merged_text),
                              !.options[last].x0 = l.x0,
                              !.options[last].y0 = l.y0]
                     ELSE current
                ELSE IF should_append_to_question(current, l)
                     THEN [current EXCEPT
                              !.question = Strip(current.question \o <<" ">> \o text),
                              !.x0 = l.x0,
                              !.y0 = l.y0]
                     ELSE current
            /\ UNCHANGED <<questions, returned, ppc, notParseVars>>

\* lines 341-346: the end of the stream
ParseReturn ==
    /\ ppc = "lines"
    /\ questions' = WithComplete(questions, current)
    /\ returned' = deduplicate_questions(questions')
    /\ ppc' = "returned"
    /\ UNCHANGED <<current, line, lines_read, notParseVars>>

ParseNext == SkipLine \/ QuestionLine \/ OptionLine \/ ContinuationLine \/ ParseReturn

\* lines 259-260
ParseInit ==
    /\ questions = <<>>
    /\ current = Nothing
    /\ line = Nothing
    /\ lines_read = 0
    /\ returned = <<>>
    /\ ppc = "lines"
    /\ GradeIdle
    /\ StateIdle
    /\ DedupIdle
    /\ RepairIdle
    /\ FolderIdle
    /\ MatchIdle
    /\ GuiIdle

ParseSpec == ParseInit /\ [][ParseNext]_vars

-----------------------------------------------------------------------------
(* The answer inferencer and the state normalizer on one question *)

\* the colors of the model's options: 0 is the color of plain text
Colors == {0, 1, 2, 5, 7}

\* the labels of 4 captured options: those of a well-formed question, and those
\* of a question whose option lines repeated a label
LabelOrders == {<<"A", "B", "C", "D">>, <<"A", "A", "B", "C">>}

\* a question of 4 options as parse_questions holds it before finalize_answer
CapturedQuestion(labels, bolds, colors) ==
    [QuestionData(<<"C", "â", "u", " ", "1", ":", " ", "x">>,
                  LineData(<<>>, FALSE, 0, 1, 0, 0))
        EXCEPT !.options =
            [k \in 1..4 |->
                OptionData(labels[k], <<"o", DigitChars[k + 1]>>,
                           LineData(<<>>, bolds[k], colors[k], 1, 10, 20 * k))]]

\* lines 657-658: whether the state normalizer highlights an option
Highlighted(option, dominant) ==
    option.is_bold \/ (option.color_int # 0 /\ option.color_int # dominant)

\* lines 659-664
color_rgb(color_int) ==
    IF color_int # 0
    THEN <<(color_int \div 65536) % 256, (color_int \div 256) % 256, color_int % 256>>
    ELSE None

\* lines 666-673
QuizOptionState(option, dominant) ==
    [label |-> option.label, text |-> option.text,
     highlighted |-> Highlighted(option, dominant), is_bold |-> option.is_bold,
     color_rgb |-> color_rgb(option.color_int), bg_highlight |-> None]

\* lines 646-682: the row of one parsed question; options_map[label] is the state of
\* the last option with that label
PdfQuestionState(question) ==
    LET options == question.options
        dominant == dominant_color(options)
        present == {options[k].label : k \in 1..Len(options)}
        highlighted == SelectSeq(options, LAMBDA opt : Highlighted(opt, dominant))
    IN  [question |-> question.question,
         options |-> [l \in present |-> QuizOptionState(MappedOption(options, l), dominant)],
         highlighted_labels |-> [k \in 1..Len(highlighted) |-> highlighted[k].label]]

\* parse_questions has captured 4 options of the question it is about to emit
StateInit ==
    /\ \E labels \in LabelOrders, bolds \in [1..4 -> BOOLEAN], colors \in [1..4 -> Colors] :
          parsed_questions = <<CapturedQuestion(labels, bolds, colors)>>
    /\ rows = <<>>
    /\ spc = "finalize"
    /\ GradeIdle
    /\ ParseIdle
    /\ DedupIdle
    /\ RepairIdle
    /\ FolderIdle
    /\ MatchIdle
    /\ GuiIdle

\* lines 349-368, as parse_questions calls it on each question it emits
FinalizeAnswer ==
    /\ spc = "finalize"
    /\ parsed_questions' =
          [i \in 1..Len(parsed_questions) |-> finalize_answer(parsed_questions[i])]
    /\ spc' = "rows"
    /\ UNCHANGED <<rows, notStateVars>>

\* lines 646-680: one iteration of the loop of parse_pdf_questions_for_grading
BuildRow ==
    /\ spc = "rows"
    /\ Len(rows) < Len(parsed_questions)
    /\ rows' = Append(rows, PdfQuestionState(parsed_questions[Len(rows) + 1]))
    /\ UNCHANGED <<parsed_questions, spc, notStateVars>>

\* line 682
ReturnRows ==
    /\ spc = "rows"
    /\ Len(rows) = Len(parsed_questions)
    /\ spc' = "returned"
    /\ UNCHANGED <<parsed_questions, rows, notStateVars>>

StateNext == FinalizeAnswer \/ BuildRow \/ ReturnRows

StateSpec == StateInit /\ [][StateNext]_vars

-----------------------------------------------------------------------------
(* deduplicate_questions on lists of emitted questions *)

\* a question as parse_questions appends it to its output
EmittedQuestion(text, labels, texts, bolds, colors) ==
    Emitted([QuestionData(text, LineData(<<>>, FALSE, 0, 1, 0, 0))
                EXCEPT !.options =
                    [k \in 1..4 |->
                        OptionData(labels[k], texts[k],
                                   LineData(<<>>, bolds[k], colors[k], 1, 10, 20 * k))]])

PlainOptions == <<<<"a">>, <<"b">>, <<"c">>, <<"d">>>>

NoBold == <<FALSE, FALSE, FALSE, FALSE>>

NoColor == <<0, 0, 0, 0>>

\* the questions of the model's lists: "Câu 1: x" without an answer, with answer B
\* (bold), with answer C (color), in other case and spacing, with another option
\* text, with a repeated label, and "Câu 2: y"
DedupQuestions ==
    {EmittedQuestion(<<"C", "â", "u", " ", "1", ":", " ", "x">>,
                     <<"A", "B", "C", "D">>, PlainOptions, NoBold, NoColor),
     EmittedQuestion(<<"C", "â", "u", " ", "1", ":", " ", "x">>,
                     <<"A", "B", "C", "D">>, PlainOptions,
                     <<FALSE, TRUE, FALSE, FALSE>>, NoColor),
     EmittedQuestion(<<"C", "â", "u", " ", "1", ":", " ", "x">>,
                     <<"A", "B", "C", "D">>, PlainOptions, NoBold, <<5, 5, 7, 5>>),
     EmittedQuestion(<<"C", "Â", "U", " ", " ", "1", ":", "\t", "X">>,
                     <<"A", "B", "C", "D">>,
                     <<<<"A">>, <<"b", " ">>, <<"c">>, <<"d">>>>, NoBold, NoColor),
     EmittedQuestion(<<"C", "â", "u", " ", "1", ":", " ", "x">>,
                     <<"A", "B", "C", "D">>,
                     <<<<"a">>, <<"b">>, <<"c">>, <<"e">>>>, NoBold, NoColor),
     EmittedQuestion(<<"C", "â", "u", " ", "1", ":", " ", "x">>,
                     <<"A", "A", "B", "C">>, PlainOptions, NoBold, NoColor),
     EmittedQuestion(<<"C", "â", "u", " ", "2", ":", " ", "y">>,
                     <<"A", "B", "C", "D">>, PlainOptions, NoBold, NoColor)}

DedupInit ==
    /\ \E n \in 0..MaxDedup : \E list \in [1..n -> DedupQuestions] : duplicated = list
    /\ deduped_once = <<>>
    /\ deduped_twice = <<>>
    /\ dpc = "first"
    /\ GradeIdle
    /\ ParseIdle
    /\ StateIdle
    /\ RepairIdle
    /\ FolderIdle
    /\ MatchIdle
    /\ GuiIdle

\* lines 371-385, on the list given
DedupFirst ==
    /\ dpc = "first"
    /\ deduped_once' = deduplicate_questions(duplicated)
    /\ dpc' = "second"
    /\ UNCHANGED <<duplicated, deduped_twice, notDedupVars>>

\* lines 371-385, on the list just returned
DedupSecond ==
    /\ dpc = "second"
    /\ deduped_twice' = deduplicate_questions(deduped_once)
    /\ dpc' = "done"
    /\ UNCHANGED <<duplicated, deduped_once, notDedupVars>>

DedupNext == DedupFirst \/ DedupSecond

DedupSpec == DedupInit /\ [][DedupNext]_vars

-----------------------------------------------------------------------------
(* repair_fragmented_text on texts of a few tokens *)

\* the tokens of the model's texts: fragments of one and two letters, words, a number
RepairTokens ==
    {<<"T">>, <<"u">>, <<"y", "ể", "n">>, <<"K", "ỹ">>,
     <<"t", "h", "u", "ậ", "t">>, <<"C", "ơ">>, <<"1">>}

\* the white space between two tokens of a text
Separators == {<<" ">>, <<" ", "\t">>}

RECURSIVE JoinWith(_, _)
JoinWith(tokens, separator) ==
    IF tokens = <<>> THEN <<>>
    ELSE IF Len(tokens) = 1 THEN Head(tokens)
    ELSE Head(tokens) \o separator \o JoinWith(Tail(tokens), separator)

RepairInit ==
    /\ \E n \in 0..MaxTokens : \E tokens \in [1..n -> RepairTokens] :
          \E separator \in Separators : fragmented = JoinWith(tokens, separator)
    /\ repaired = <<>>
    /\ rpc = "call"
    /\ GradeIdle
    /\ ParseIdle
    /\ StateIdle
    /\ DedupIdle
    /\ FolderIdle
    /\ MatchIdle
    /\ GuiIdle

\* lines 128-161
Repair ==
    /\ rpc = "call"
    /\ repaired' = repair_fragmented_text(fragmented)
    /\ rpc' = "returned"
    /\ UNCHANGED <<fragmented, notRepairVars>>

RepairNext == Repair

RepairSpec == RepairInit /\ [][RepairNext]_vars

-----------------------------------------------------------------------------
(* process_folder and process_pdf_file *)

\* the file names of the model's folders, in the order of sorted()
FileNames ==
    <<[stem |-> "a", suffix |-> ".pdf"], [stem |-> "a", suffix |-> ".txt"],
      [stem |-> "b", suffix |-> ".pdf"], [stem |-> "c", suffix |-> ".pdf"]>>

Files == {FileNames[i] : i \in 1..Len(FileNames)}

Position(file) == CHOOSE i \in 1..Len(FileNames) : FileNames[i] = file

\* input_dir.glob("*.pdf")
Glob(folder) == {file \in DOMAIN folder : file.suffix = ".pdf"}

RECURSIVE Sorted(_)
\* sorted(paths)
Sorted(paths) ==
    IF paths = {} THEN <<>>
    ELSE LET first == CHOOSE file \in paths :
                          \A other \in paths : Position(file) <= Position(other)
         IN  <<first>> \o Sorted(paths \ {first})

\* lines 399-401 and 445-446: the two documents saved for a PDF
write_output_files(pdf_file) ==
    {[stem |-> pdf_file.stem, suffix |-> "_co_dap_an.docx"],
     [stem |-> pdf_file.stem, suffix |-> "_de_lam.docx"]}

\* mutant: a PDF without questions is written and reported like the others
process_pdf_file_unguarded(pdf_file, question_count) ==
    [result |-> [status |-> "ok", pdf |-> pdf_file, question_count |-> question_count],
     written |-> write_output_files(pdf_file)]

\* lines 450-460, given the number of questions parse_questions returns for the file:
\* the result and the documents written
process_pdf_file(pdf_file, question_count) ==
    IF question_count = 0
    THEN [result |-> [status |-> "skipped", pdf |-> pdf_file, question_count |-> 0],
          written |-> {}]
    ELSE [result |-> [status |-> "ok", pdf |-> pdf_file,
                      question_count |-> question_count],
          written |-> write_output_files(pdf_file)]

\* a folder: its files, each with the number of questions recognized in it
FolderInit ==
    /\ \E present \in SUBSET Files : \E counts \in [present -> 0..MaxQuestions] :
          input_dir = counts
    /\ pdf_files = <<>>
    /\ results = <<>>
    /\ output_files = {}
    /\ fpc = "glob"
    /\ GradeIdle
    /\ ParseIdle
    /\ StateIdle
    /\ DedupIdle
    /\ RepairIdle
    /\ MatchIdle
    /\ GuiIdle

\* lines 464-466: no PDF in the folder
RaiseFileNotFound ==
    /\ fpc = "glob"
    /\ Glob(input_dir) = {}
    /\ fpc' = "raised"
    /\ UNCHANGED <<input_dir, pdf_files, results, output_files, notFolderVars>>

\* lines 464-469
ListPdfFiles ==
    /\ fpc = "glob"
    /\ Glob(input_dir) # {}
    /\ pdf_files' = Sorted(Glob(input_dir))
    /\ fpc' = "loop"
    /\ UNCHANGED <<input_dir, results, output_files, notFolderVars>>

\* lines 471-477: one iteration of the loop
ProcessPdf ==
    /\ fpc = "loop"
    /\ Len(results) < Len(pdf_files)
    /\ LET pdf_file == pdf_files[Len(results) + 1]
           processed == process_pdf_file(pdf_file, input_dir[pdf_file])
       IN  /\ results' = Append(results, processed.result)
           /\ output_files' = output_files \cup processed.written
    /\ UNCHANGED <<input_dir, pdf_files, fpc, notFolderVars>>

\* line 479
ReturnResults ==
    /\ fpc = "loop"
    /\ Len(results) = Len(pdf_files)
    /\ fpc' = "returned"
    /\ UNCHANGED <<input_dir, pdf_files, results, output_files, notFolderVars>>

FolderNext == RaiseFileNotFound \/ ListPdfFiles \/ ProcessPdf \/ ReturnResults

FolderSpec == FolderInit /\ [][FolderNext]_vars

-----------------------------------------------------------------------------
(* match_option_line on cleaned texts *)

\* the first characters of the model's candidates: the labels, and a letter that is none
CandidateLetters == {"a", "b", "c", "d", "A", "B", "C", "D", "e", "E"}

\* what follows the first character: a separator, with or without a space, or nothing
CandidateSeparators ==
    {<<".">>, <<":">>, <<")">>, <<"-">>, <<" ">>, <<".", " ">>, <<>>}

\* what follows the separator
CandidateBodies == {<<"x">>, <<"x", " ", "y">>, <<>>}

MatchInit ==
    /\ \E letter \in CandidateLetters : \E separator \in CandidateSeparators :
          \E body \in CandidateBodies :
              candidate_text = <<letter>> \o separator \o body
    /\ candidate_match = Nothing
    /\ mpc = "call"
    /\ GradeIdle
    /\ ParseIdle
    /\ StateIdle
    /\ DedupIdle
    /\ RepairIdle
    /\ FolderIdle
    /\ GuiIdle

\* lines 283-286: the match, its label upper-cased and its text stripped
MatchOptionLine ==
    /\ mpc = "call"
    /\ LET option_match == match_option_line(candidate_text)
       IN  candidate_match' =
              IF option_match = Nothing THEN Nothing
              ELSE [label |-> UpperChar(option_match.label),
                    text |-> Strip(option_match.text)]
    /\ mpc' = "returned"
    /\ UNCHANGED <<candidate_text, notMatchVars>>

MatchNext == MatchOptionLine

MatchSpec == MatchInit /\ [][MatchNext]_vars

-----------------------------------------------------------------------------
(* quiz_app.py: the background actions of QuizProcessorApp *)

\* the four actions that run in a worker thread
BackgroundActions == {"process", "validate", "grade", "generate"}

\* the messages of the exceptions an action raises
Messages == {"no PDF found", "file not found"}

\* what an action does in the end
Outcomes == {"returns"} \cup Messages

\* the callbacks given to root.after(0, ...)
LogCallback == [callback |-> "log"]

ShowErrorCallback == [callback |-> "showerror"]

SetRunningCallback == [callback |-> "set_running"]

GuiInit ==
    /\ GuiIdle
    /\ GradeIdle
    /\ ParseIdle
    /\ StateIdle
    /\ DedupIdle
    /\ RepairIdle
    /\ FolderIdle
    /\ MatchIdle

\* lines 330-332, 275-282, 300-312: a button is pressed with invalid inputs
StartRefused ==
    /\ buttons = "normal"
    /\ dialog' = "invalid input"
    /\ UNCHANGED <<buttons, started, outcome, wpc, error_cell, after_queue,
                   callback_exception, notGuiVars>>

\* lines 334-344, 284-294, 314-324: set_running(True), then the thread is started
StartAction ==
    /\ buttons = "normal"
    /\ \E action \in BackgroundActions : \E ending \in Outcomes :
          /\ started' = action
          /\ outcome' = ending
    /\ buttons' = "disabled"
    /\ wpc' = "try"
    /\ dialog' = None
    /\ callback_exception' = None
    /\ UNCHANGED <<error_cell, after_queue, notGuiVars>>

\* the action schedules a log line (lines 347-369 and the like)
WorkerLog ==
    /\ wpc = "try"
    /\ Len(after_queue) < MaxPending
    /\ after_queue' = Append(after_queue, LogCallback)
    /\ UNCHANGED <<buttons, started, outcome, wpc, error_cell, dialog,
                   callback_exception, notGuiVars>>

\* line 338: the action returns
WorkerReturn ==
    /\ wpc = "try"
    /\ outcome = "returns"
    /\ wpc' = "finally"
    /\ UNCHANGED <<buttons, started, outcome, error_cell, after_queue, dialog,
                   callback_exception, notGuiVars>>

\* lines 339-340: the action raises; 'error' is bound and the dialog is scheduled
WorkerRaise ==
    /\ wpc = "try"
    /\ outcome \in Messages
    /\ error_cell' = outcome
    /\ after_queue' = Append(after_queue, ShowErrorCallback)
    /\ wpc' = "except"
    /\ UNCHANGED <<buttons, started, outcome, dialog, callback_exception, notGuiVars>>

\* the end of the except block of line 339: 'error' is deleted
WorkerLeaveExcept ==
    /\ wpc = "except"
    /\ error_cell' = Unbound
    /\ wpc' = "finally"
    /\ UNCHANGED <<buttons, started, outcome, after_queue, dialog, callback_exception,
                   notGuiVars>>

\* mutant: set_running(False) is scheduled after a normal return only
WorkerFinallyAfterReturn ==
    /\ wpc = "finally"
    /\ after_queue' = IF outcome = "returns"
                      THEN Append(after_queue, SetRunningCallback)
                      ELSE after_queue
    /\ wpc' = "ended"
    /\ UNCHANGED <<buttons, started, outcome, error_cell, dialog, callback_exception,
                   notGuiVars>>

\* lines 341-342: set_running(False) is scheduled, and the thread ends
WorkerFinally ==
    /\ wpc = "finally"
    /\ after_queue' = Append(after_queue, SetRunningCallback)
    /\ wpc' = "ended"
    /\ UNCHANGED <<buttons, started, outcome, error_cell, dialog, callback_exception,
                   notGuiVars>>

\* the event loop runs the callback scheduled first: the lambdas of lines 340 and 342
\* read 'error' and call set_running when they run
RunCallback ==
    /\ after_queue # <<>>
    /\ after_queue' = Tail(after_queue)
    /\ LET scheduled == Head(after_queue)
       IN  CASE scheduled = LogCallback ->
                    UNCHANGED <<buttons, dialog, callback_exception>>
             [] scheduled = ShowErrorCallback ->
                    /\ IF error_cell # Unbound
                       THEN /\ dialog' = error_cell
                            /\ UNCHANGED callback_exception
                       ELSE /\ callback_exception' = "NameError"
                            /\ UNCHANGED dialog
                    /\ UNCHANGED buttons
             [] scheduled = SetRunningCallback ->
                    /\ buttons' = "normal"
                    /\ UNCHANGED <<dialog, callback_exception>>
    /\ UNCHANGED <<started, outcome, wpc, error_cell, notGuiVars>>

GuiNext ==
    \/ StartRefused
    \/ StartAction
    \/ WorkerLog
    \/ WorkerReturn
    \/ WorkerRaise
    \/ WorkerLeaveExcept
    \/ WorkerFinally
    \/ RunCallback

GuiSpec == GuiInit /\ [][GuiNext]_vars

\* the worker thread runs to its end and the event loop runs what is scheduled
GuiLiveSpec ==
    /\ GuiSpec
    /\ WF_vars(WorkerReturn)
    /\ WF_vars(WorkerRaise)
    /\ WF_vars(WorkerLeaveExcept)
    /\ WF_vars(WorkerFinally)
    /\ WF_vars(RunCallback)

-----------------------------------------------------------------------------
(* The grader: pure parts of grade_quiz_files *)

Labels == <<"A", "B", "C", "D">>

\* a QuizQuestionState, without the option texts and styles (used for the report only)
QuestionState(text, labels) == [question |-> text, highlighted_labels |-> labels]

\* mutant: any non-empty list of labels counts as one label
pick_first_label(labels) == IF Len(labels) >= 1 THEN labels[1] ELSE None

pick_single_label(labels) == IF Len(labels) = 1 THEN labels[1] ELSE None

_count_single_highlighted(question_list) ==
    Cardinality({i \in 1..Len(question_list) :
                    pick_single_label(question_list[i].highlighted_labels) # None})

\* mutant: the product rounded up, so that the threshold is the exact 60%
SwapFractionExact(n) == (6 * n + 9) \div 10

\* int(compared_questions * 0.6): the truncated float product, which equals
\* (6 * n) \div 10 for every n from 0 to 2,000,000 (computed with the interpreter)
SwapFraction(n) == (6 * n) \div 10

\* the condition of the role swap, lines 969-972
ShouldSwap(submission, answer) ==
    LET overlap == Min(Len(submission), Len(answer))
    IN  /\ overlap > 0
        /\ _count_single_highlighted(answer) = 0
        /\ _count_single_highlighted(submission) >= Max(3, SwapFraction(overlap))

\* mutant: the flag is set but nothing is exchanged
SwapIfNever(swap, submission, answer) == <<submission, answer>>

\* the (submission, answer) pair after role-swap detection, lines 973-974
SwapIf(swap, submission, answer) ==
    IF swap THEN <<answer, submission>> ELSE <<submission, answer>>

RECURSIVE IndexFrom(_, _, _)
IndexFrom(answer, i, byKey) ==
    IF i > Len(answer) THEN byKey
    ELSE LET key == normalize_question_key(answer[i].question)
         IN  IndexFrom(answer, i + 1,
                 IF key \in DOMAIN byKey
                 THEN [byKey EXCEPT ![key] = Append(@, i - 1)]
                 ELSE [k \in DOMAIN byKey \cup {key} |->
                          IF k = key THEN <<i - 1>> ELSE byKey[k]])

\* answer_indices_by_key, lines 978-981: key -> the 0-based answer indices, ascending
IndexByKey(answer) == IndexFrom(answer, 1, <<>>)

\* mutant: the last candidate of the key's queue is taken, not the first
PairOneLast(submission, i, st) ==
    LET key == normalize_question_key(submission[i + 1].question)
    IN  IF key \notin DOMAIN st.byKey \/ st.byKey[key] = <<>>
        THEN st
        ELSE LET q == st.byKey[key]
             IN  [byKey |-> [st.byKey EXCEPT ![key] = SubSeq(q, 1, Len(q) - 1)],
                  pairs |-> Append(st.pairs, <<i, q[Len(q)]>>)]

\* mutant: the candidate taken stays in the key's queue
PairOneNoPop(submission, i, st) ==
    LET key == normalize_question_key(submission[i + 1].question)
    IN  IF key \notin DOMAIN st.byKey \/ st.byKey[key] = <<>>
        THEN st
        ELSE [byKey |-> st.byKey,
              pairs |-> Append(st.pairs, <<i, Head(st.byKey[key])>>)]

\* one turn of the loop of lines 983-989, for the 0-based submission index i:
\* st is [byKey, pairs]
PairOne(submission, i, st) ==
    LET key == normalize_question_key(submission[i + 1].question)
    IN  IF key \notin DOMAIN st.byKey \/ st.byKey[key] = <<>>
        THEN st
        ELSE [byKey |-> [st.byKey EXCEPT ![key] = Tail(@)],
              pairs |-> Append(st.pairs, <<i, Head(st.byKey[key])>>)]

RECURSIVE PairFrom(_, _, _)
PairFrom(submission, i, st) ==
    IF i >= Len(submission) THEN st
    ELSE PairFrom(submission, i + 1, PairOne(submission, i, st))

\* compared_pairs after the loop of lines 983-989
ContentPairs(submission, answer) ==
    PairFrom(submission, 0, [byKey |-> IndexByKey(answer), pairs |-> <<>>]).pairs

\* mutant: half of the length rounded up
MinimumTextMatchesCeil(n) == Max(1, (n + 1) \div 2)

\* minimum_text_matches, line 991: int(n * 0.5) is n \div 2
MinimumTextMatches(n) == Max(1, n \div 2)

PositionalPairs(submission, answer) ==
    [i \in 1..Min(Len(submission), Len(answer)) |-> <<i - 1, i - 1>>]

\* mutant: the content pairs are always replaced by the positional ones
FallbackPairsAlways(pairs, submission, answer) == PositionalPairs(submission, answer)

\* lines 991-996
FallbackPairs(pairs, submission, answer) ==
    IF Len(pairs) < MinimumTextMatches(Len(submission))
    THEN PositionalPairs(submission, answer)
    ELSE pairs

EmptyTally ==
    [correct_count |-> 0, wrong_count |-> 0, unanswered_count |-> 0, skipped_count |-> 0,
     correct_questions |-> <<>>, wrong_questions |-> <<>>,
     unanswered_questions |-> <<>>, skipped_questions |-> <<>>,
     unanswered_items |-> <<>>, wrong_items |-> <<>>]

\* an entry of wrong_items / unanswered_items, without its option_states
Item(index, student_question, selected, correct_label) ==
    [index |-> index,
     question_text |-> normalize_question_text(student_question.question),
     selected_labels |-> selected,
     correct_label |-> correct_label]

\* mutant: a submission that highlights the correct label among several is correct
ClassificationLenient(student_question, answer_question) ==
    LET correct_label == pick_single_label(answer_question.highlighted_labels)
        selected_labels == student_question.highlighted_labels
    IN  IF correct_label = None THEN "skipped"
        ELSE IF Len(selected_labels) = 0 THEN "unanswered"
        ELSE IF \E i \in 1..Len(selected_labels) : selected_labels[i] = correct_label
             THEN "correct"
        ELSE "wrong"

\* mutant: a blank submission question is graded like a wrong answer
ClassificationNoBlank(student_question, answer_question) ==
    LET correct_label == pick_single_label(answer_question.highlighted_labels)
        selected_label == pick_single_label(student_question.highlighted_labels)
    IN  IF correct_label = None THEN "skipped"
        ELSE IF selected_label = correct_label THEN "correct"
        ELSE "wrong"

\* the branch the loop body of lines 1011-1068 takes for one pair
Classification(student_question, answer_question) ==
    LET correct_label == pick_single_label(answer_question.highlighted_labels)
        selected_labels == student_question.highlighted_labels
        selected_label == pick_single_label(selected_labels)
    IN  IF correct_label = None THEN "skipped"
        ELSE IF Len(selected_labels) = 0 THEN "unanswered"
        ELSE IF selected_label = correct_label THEN "correct"
        ELSE "wrong"

\* mutant: a skipped pair is listed but not counted
TalliedSkipUncounted(t, kind, index, item) ==
    CASE kind = "skipped" ->
            [t EXCEPT !.skipped_questions = Append(@, index)]
      [] kind = "unanswered" ->
            [t EXCEPT !.unanswered_count = @ + 1,
                      !.unanswered_questions = Append(@, index),
                      !.unanswered_items = Append(@, [item EXCEPT !.selected_labels = <<>>])]
      [] kind = "correct" ->
            [t EXCEPT !.correct_count = @ + 1,
                      !.correct_questions = Append(@, index)]
      [] kind = "wrong" ->
            [t EXCEPT !.wrong_count = @ + 1,
                      !.wrong_questions = Append(@, index),
                      !.wrong_items = Append(@, item)]

\* what each branch of the loop body of lines 1011-1068 adds to the counters and lists
Tallied(t, kind, index, item) ==
    CASE kind = "skipped" ->
            [t EXCEPT !.skipped_count = @ + 1,
                      !.skipped_questions = Append(@, index)]
      [] kind = "unanswered" ->
            [t EXCEPT !.unanswered_count = @ + 1,
                      !.unanswered_questions = Append(@, index),
                      !.unanswered_items = Append(@, [item EXCEPT !.selected_labels = <<>>])]
      [] kind = "correct" ->
            [t EXCEPT !.correct_count = @ + 1,
                      !.correct_questions = Append(@, index)]
      [] kind = "wrong" ->
            [t EXCEPT !.wrong_count = @ + 1,
                      !.wrong_questions = Append(@, index),
                      !.wrong_items = Append(@, item)]

\* mutant: the lists hold the key's index of the pair
ClassifyOneKeyIndex(t, submission, answer, pair) ==
    LET student_question == submission[pair[1] + 1]
        answer_question == answer[pair[2] + 1]
    IN  Tallied(t, Classification(student_question, answer_question), pair[2] + 1,
                Item(pair[1] + 1, student_question, student_question.highlighted_labels,
                     pick_single_label(answer_question.highlighted_labels)))

\* one turn of the loop of lines 1011-1068
ClassifyOne(t, submission, answer, pair) ==
    LET student_question == submission[pair[1] + 1]
        answer_question == answer[pair[2] + 1]
    IN  Tallied(t, Classification(student_question, answer_question), pair[1] + 1,
                Item(pair[1] + 1, student_question, student_question.highlighted_labels,
                     pick_single_label(answer_question.highlighted_labels)))

RECURSIVE ClassifyFrom(_, _, _, _, _)
ClassifyFrom(t, submission, answer, pairs, k) ==
    IF k > Len(pairs) THEN t
    ELSE ClassifyFrom(ClassifyOne(t, submission, answer, pairs[k]),
                      submission, answer, pairs, k + 1)

WrongOutputFile(file) == <<file, "_cac_cau_loi.docx">>

\* the GradingResult of lines 1074-1091
MakeResult(afile, sfile, compared, t, swapped) ==
    [answer_file |-> afile,
     submission_file |-> sfile,
     compared_questions |-> compared,
     correct_count |-> t.correct_count,
     wrong_count |-> t.wrong_count,
     unanswered_count |-> t.unanswered_count,
     answered_count |-> t.correct_count + t.wrong_count,
     skipped_count |-> t.skipped_count,
     wrong_output_file |-> WrongOutputFile(sfile),
     correct_questions |-> t.correct_questions,
     wrong_questions |-> t.wrong_questions,
     unanswered_questions |-> t.unanswered_questions,
     skipped_questions |-> t.skipped_questions,
     auto_swapped_files |-> swapped,
     wrong_items |-> t.wrong_items,
     unanswered_items |-> t.unanswered_items]

\* grade_quiz_files as a function of the two parsed sequences and the two file names
grade_quiz_files(submission, answer, sfile, afile) ==
    LET swap == ShouldSwap(submission, answer)
        qs == SwapIf(swap, submission, answer)
        fs == SwapIf(swap, sfile, afile)
        pairs == FallbackPairs(ContentPairs(qs[1], qs[2]), qs[1], qs[2])
    IN  MakeResult(fs[2], fs[1], Len(pairs),
                   ClassifyFrom(EmptyTally, qs[1], qs[2], pairs, 1), swap)

-----------------------------------------------------------------------------
(* The inputs of the grader *)

RECURSIVE DigitsOf(_)
\* str(n) for n >= 0
DigitsOf(n) ==
    IF n < 10 THEN <<DigitChars[n + 1]>>
    ELSE DigitsOf(n \div 10) \o <<DigitChars[(n % 10) + 1]>>

\* "Câu <i>: Q<i>", the i-th question as a submission writes it
SubText(i) == <<"C", "â", "u", " ">> \o DigitsOf(i) \o <<":", " ", "Q">> \o DigitsOf(i)

\* "<i>)  q<i>", the same question as a key writes it
KeyText(i) == DigitsOf(i) \o <<")", " ", " ", "q">> \o DigitsOf(i)

\* "Câu 1: X  y"
TextA1 == <<"C", "â", "u", " ", "1", ":", " ", "X", " ", " ", "y">>

\* "2) x Y", the same question as TextA1 up to numbering, spacing and case
TextA2 == <<"2", ")", " ", "x", " ", "Y">>

\* "Question 3. Z"
TextB == <<"Q", "u", "e", "s", "t", "i", "o", "n", " ", "3", ".", " ", "Z">>

SeqsUpTo(S, n) == UNION {[1..k -> S] : k \in 0..n}

\* the highlighted-label lists of a question: none, one label, another one, two labels
Highlights == {<<>>, <<"A">>, <<"B">>, <<"A", "B">>}

\* the highlighted-label lists of a key question: one label, or two
KeyHighlights == {<<"A">>, <<"A", "B">>}

\* lines 963-966: the two parsed sequences, before anything is compared
Given(submission, answer) ==
    /\ given_submission = submission
    /\ given_answer = answer
    /\ submission_questions = submission
    /\ answer_questions = answer
    /\ compared_questions = Min(Len(submission), Len(answer))

\* submission and key hold the same n questions in the same order, with any highlights
SameInputs ==
    \E n \in 0..MaxSame :
        \E hs \in [1..n -> Highlights], hk \in [1..n -> KeyHighlights] :
            Given([i \in 1..n |-> QuestionState(SubText(i), hs[i])],
                  [i \in 1..n |-> QuestionState(KeyText(i), hk[i])])

\* questions of two different normalized keys, two of them the same question
MixedQuestions ==
    {QuestionState(TextA1, <<"A">>), QuestionState(TextA2, <<"B">>),
     QuestionState(TextB, <<>>)}

\* any two sequences over MixedQuestions, the key shorter than the longest submission:
\* repeated, missing and reordered questions
MixedInputs ==
    \E submission \in SeqsUpTo(MixedQuestions, MaxLen) :
        \E answer \in SeqsUpTo(MixedQuestions, MaxLen - 1) : Given(submission, answer)

\* <<n, s>>: a sequence of n questions, the first s of them with a single highlight
Shapes == {p \in (0..MaxSwapLen) \X (0..MaxSwapLen) : p[2] <= p[1]}

SubShape(p) ==
    [i \in 1..p[1] |-> QuestionState(SubText(i), IF i <= p[2] THEN <<"A">> ELSE <<>>)]

KeyShape(p) ==
    [i \in 1..p[1] |->
        QuestionState(KeyText(i),
            IF i <= p[2] THEN (IF i % 2 = 1 THEN <<"A">> ELSE <<"B">>)
            ELSE (IF i % 2 = 1 THEN <<"A", "B">> ELSE <<>>))]

\* long sequences, for the thresholds of the role swap
SwapInputs == \E p \in Shapes : \E q \in Shapes : Given(SubShape(p), KeyShape(q))

Perms(n) == {p \in [1..n -> 1..n] : \A i, j \in 1..n : p[i] = p[j] => i = j}

\* the sequence qs reordered by the permutation p
Permuted(qs, p) == [i \in 1..Len(qs) |-> qs[p[i]]]

\* the rotations of 1..n, n > 0
Rotations(n) == {[i \in 1..n |-> ((i + r - 1) % n) + 1] : r \in 0..(n - 1)}

\* the same pairwise different questions, the key rotated (the properties go through
\* every order of the given key)
PermInputs ==
    \E n \in 0..MaxPerm :
        \E hs \in [1..n -> {<<>>, <<"A">>}], hk \in [1..n -> {<<>>, <<"A">>, <<"A", "B">>}],
           p \in (IF n = 0 THEN {<<>>} ELSE Rotations(n)) :
            Given([i \in 1..n |-> QuestionState(SubText(i), hs[i])],
                  Permuted([i \in 1..n |-> QuestionState(KeyText(i), hk[i])], p))

\* ten questions: 1-2 left blank, 3-8 as the key, 9-10 another single option
TenQuestions ==
    <<[i \in 1..10 |->
          QuestionState(SubText(i),
              IF i <= 2 THEN <<>> ELSE IF i <= 8 THEN <<"A">> ELSE <<"B">>)],
      [i \in 1..10 |-> QuestionState(KeyText(i), <<"A">>)]>>

GradeInputs ==
    \/ SameInputs
    \/ MixedInputs
    \/ SwapInputs
    \/ Given(TenQuestions[1], TenQuestions[2])

-----------------------------------------------------------------------------
(* grade_quiz_files, step by step *)

\* lines 954-967: the file names, and nothing compared yet
GradeStart ==
    /\ submission_file = "submission"
    /\ answer_file = "answer"
    /\ auto_swapped_files = FALSE
    /\ answer_indices_by_key = <<>>
    /\ submission_index = 0
    /\ compared_pairs = <<>>
    /\ tally = EmptyTally
    /\ pair_index = 1
    /\ result = None
    /\ gpc = "swap"
    /\ ParseIdle
    /\ StateIdle
    /\ DedupIdle
    /\ RepairIdle
    /\ FolderIdle
    /\ MatchIdle
    /\ GuiIdle

\* lines 969-975: role-swap detection
DetectSwap ==
    /\ gpc = "swap"
    /\ LET swap == ShouldSwap(submission_questions, answer_questions)
           qs == SwapIf(swap, submission_questions, answer_questions)
           fs == SwapIf(swap, submission_file, answer_file)
       IN  /\ submission_questions' = qs[1]
           /\ answer_questions' = qs[2]
           /\ submission_file' = fs[1]
           /\ answer_file' = fs[2]
           /\ auto_swapped_files' = swap
    /\ gpc' = "index"
    /\ UNCHANGED notGradeVars
    /\ UNCHANGED <<given_submission, given_answer, answer_indices_by_key, submission_index,
                   compared_pairs, compared_questions, tally, pair_index, result>>

\* lines 977-981: the index of the key's questions by normalized key
BuildIndex ==
    /\ gpc = "index"
    /\ answer_indices_by_key' = IndexByKey(answer_questions)
    /\ compared_pairs' = <<>>
    /\ submission_index' = 0
    /\ gpc' = "pair"
    /\ UNCHANGED notGradeVars
    /\ UNCHANGED <<given_submission, given_answer, submission_questions, answer_questions,
                   submission_file, answer_file, auto_swapped_files, compared_questions,
                   tally, pair_index, result>>

\* lines 983-989: one submission question is paired, or left unpaired
PairStep ==
    /\ gpc = "pair"
    /\ submission_index < Len(submission_questions)
    /\ LET st == PairOne(submission_questions, submission_index,
                         [byKey |-> answer_indices_by_key, pairs |-> compared_pairs])
       IN  /\ answer_indices_by_key' = st.byKey
           /\ compared_pairs' = st.pairs
    /\ submission_index' = submission_index + 1
    /\ UNCHANGED notGradeVars
    /\ UNCHANGED <<given_submission, given_answer, submission_questions, answer_questions,
                   submission_file, answer_file, auto_swapped_files, compared_questions,
                   tally, pair_index, result, gpc>>

\* lines 991-998: the positional fallback, and the number of compared questions
Fallback ==
    /\ gpc = "pair"
    /\ submission_index = Len(submission_questions)
    /\ compared_pairs' = FallbackPairs(compared_pairs, submission_questions, answer_questions)
    /\ compared_questions' = Len(compared_pairs')
    /\ tally' = EmptyTally
    /\ pair_index' = 1
    /\ gpc' = "classify"
    /\ UNCHANGED notGradeVars
    /\ UNCHANGED <<given_submission, given_answer, submission_questions, answer_questions,
                   submission_file, answer_file, auto_swapped_files, answer_indices_by_key,
                   submission_index, result>>

\* lines 1011-1068: one pair is classified
ClassifyStep ==
    /\ gpc = "classify"
    /\ pair_index <= Len(compared_pairs)
    /\ tally' = ClassifyOne(tally, submission_questions, answer_questions,
                            compared_pairs[pair_index])
    /\ pair_index' = pair_index + 1
    /\ UNCHANGED notGradeVars
    /\ UNCHANGED <<given_submission, given_answer, submission_questions, answer_questions,
                   submission_file, answer_file, auto_swapped_files, answer_indices_by_key,
                   submission_index, compared_pairs, compared_questions, result, gpc>>

\* lines 1070-1091: the GradingResult is returned
Finish ==
    /\ gpc = "classify"
    /\ pair_index > Len(compared_pairs)
    /\ result' = MakeResult(answer_file, submission_file, compared_questions, tally,
                            auto_swapped_files)
    /\ gpc' = "done"
    /\ UNCHANGED notGradeVars
    /\ UNCHANGED <<given_submission, given_answer, submission_questions, answer_questions,
                   submission_file, answer_file, auto_swapped_files, answer_indices_by_key,
                   submission_index, compared_pairs, compared_questions, tally, pair_index>>

GradeNext == DetectSwap \/ BuildIndex \/ PairStep \/ Fallback \/ ClassifyStep \/ Finish

GradeInit == GradeInputs /\ GradeStart

GradeSpec == GradeInit /\ [][GradeNext]_vars

\* the grader on the inputs whose key comes in every order
PermInit == PermInputs /\ GradeStart

PermSpec == PermInit /\ [][GradeNext]_vars

-----------------------------------------------------------------------------
(* Properties of the grader *)

InSeq(x, seq) == \E i \in 1..Len(seq) : seq[i] = x

\* the number of pairs of compared_pairs the classification loop has gone through
Classified ==
    IF gpc = "done" THEN Len(compared_pairs)
    ELSE IF gpc = "classify" THEN pair_index - 1
    ELSE 0

\* the submission question, the key question and the 1-based index of the k-th pair
SubOf(k) == submission_questions[compared_pairs[k][1] + 1]

KeyOf(k) == answer_questions[compared_pairs[k][2] + 1]

IdxOf(k) == compared_pairs[k][1] + 1

\* the number of questions with exactly one highlighted label
SingleCount(qs) == Cardinality({i \in 1..Len(qs) : Len(qs[i].highlighted_labels) = 1})

\* what the returned GradingResult takes from the loop's counters and lists
ResultIsTally ==
    /\ result.correct_questions = tally.correct_questions
    /\ result.wrong_questions = tally.wrong_questions
    /\ result.unanswered_questions = tally.unanswered_questions
    /\ result.skipped_questions = tally.skipped_questions
    /\ result.correct_count = tally.correct_count
    /\ result.wrong_count = tally.wrong_count
    /\ result.unanswered_count = tally.unanswered_count
    /\ result.skipped_count = tally.skipped_count
    /\ result.wrong_items = tally.wrong_items
    /\ result.unanswered_items = tally.unanswered_items

\* whether a question has exactly 4 options labelled A, B, C, D in that order
OptionsABCD(question) ==
    /\ Len(question.options) = 4
    /\ \A k \in 1..4 : question.options[k].label = <<"A", "B", "C", "D">>[k]

\* C1: every question of the output of parse_questions, and of the list it returns,
\* has exactly 4 options and their labels are A, B, C, D in that order, whatever
\* labels the option lines of the stream carry
C1_EmittedOptionsABCD ==
    /\ \A i \in 1..Len(questions) : OptionsABCD(questions[i])
    /\ ppc = "returned" => \A i \in 1..Len(returned) : OptionsABCD(returned[i])

\* a question was returned with options A, B, C, D in order although the option line
\* that completed it, the last line of the stream, was not its D line
C1_Reordered ==
    /\ ppc = "returned"
    /\ lines_read = 5
    /\ Len(returned) = 1
    /\ OptionsABCD(returned[1])
    /\ line.text[1] # "D"

\* C2: in every GradingResult returned, compared_questions is the sum of the correct,
\* wrong, unanswered and skipped counts (and the number of pairs formed), and
\* answered_count is correct_count + wrong_count, with content or positional pairing,
\* with or without a role swap.
C2_CountsAddUp ==
    gpc = "done" =>
        /\ result.compared_questions = result.correct_count + result.wrong_count
                                       + result.unanswered_count + result.skipped_count
        /\ result.compared_questions = Len(compared_pairs)
        /\ result.answered_count = result.correct_count + result.wrong_count

\* a result after a role swap and a positional fallback, with pairs of several classes
C2_Witness ==
    /\ gpc = "done"
    /\ result.auto_swapped_files
    /\ compared_pairs = PositionalPairs(submission_questions, answer_questions)
    /\ compared_pairs # ContentPairs(submission_questions, answer_questions)
    /\ result.unanswered_count > 0

\* a result with content pairing, no swap and all four classes
C2_AllClasses ==
    /\ gpc = "done"
    /\ result.correct_count > 0
    /\ result.wrong_count > 0
    /\ result.unanswered_count > 0
    /\ result.skipped_count > 0

\* C3: a pair whose key question has zero or several highlighted labels is skipped
\* whatever the submission highlights: its index is in skipped_questions only, it has
\* no wrong or unanswered item, skipped_count counts exactly these pairs, and the loop
\* goes on to the last pair.
C3_AmbiguousKeySkipped ==
    /\ \A k \in 1..Classified :
          Len(KeyOf(k).highlighted_labels) # 1 =>
              /\ InSeq(IdxOf(k), tally.skipped_questions)
              /\ ~InSeq(IdxOf(k), tally.correct_questions)
              /\ ~InSeq(IdxOf(k), tally.wrong_questions)
              /\ ~InSeq(IdxOf(k), tally.unanswered_questions)
              /\ \A i \in 1..Len(tally.wrong_items) : tally.wrong_items[i].index # IdxOf(k)
              /\ \A i \in 1..Len(tally.unanswered_items) :
                    tally.unanswered_items[i].index # IdxOf(k)
    /\ tally.skipped_count =
          Cardinality({k \in 1..Classified : Len(KeyOf(k).highlighted_labels) # 1})
    /\ Len(tally.skipped_questions) = tally.skipped_count
    /\ gpc = "done" => ResultIsTally /\ pair_index = Len(compared_pairs) + 1

\* a key question with two highlights facing a blank submission question, another
\* facing a submission that highlights one of the two, and a later pair still graded
C3_Witness ==
    /\ gpc = "done"
    /\ \E k1, k2, k3 \in 1..Len(compared_pairs) :
          /\ k1 < k3 /\ k2 < k3
          /\ Len(KeyOf(k1).highlighted_labels) = 2
          /\ Len(SubOf(k1).highlighted_labels) = 1
          /\ InSeq(SubOf(k1).highlighted_labels[1], KeyOf(k1).highlighted_labels)
          /\ Len(KeyOf(k2).highlighted_labels) = 2
          /\ Len(SubOf(k2).highlighted_labels) = 0
          /\ InSeq(IdxOf(k3), result.correct_questions)

\* a key question with no highlight, skipped
C3_NoHighlightSkipped ==
    /\ gpc = "done"
    /\ \E k \in 1..Len(compared_pairs) :
          /\ Len(KeyOf(k).highlighted_labels) = 0
          /\ Len(SubOf(k).highlighted_labels) = 1
          /\ InSeq(IdxOf(k), result.skipped_questions)

\* C4: for a pair whose key question has exactly one highlighted label L, the pair is
\* unanswered iff the submission highlights nothing, correct iff the submission's
\* highlighted labels are exactly <<L>>, wrong otherwise (also when L is one of several
\* highlighted labels); the wrong item carries the selected labels and L.
C4_SingleKeyClassification ==
    \A k \in 1..Classified :
        Len(KeyOf(k).highlighted_labels) = 1 =>
            LET L == KeyOf(k).highlighted_labels[1]
                selected == SubOf(k).highlighted_labels
            IN  /\ InSeq(IdxOf(k), tally.unanswered_questions) <=> selected = <<>>
                /\ InSeq(IdxOf(k), tally.correct_questions) <=> selected = <<L>>
                /\ InSeq(IdxOf(k), tally.wrong_questions)
                      <=> (selected # <<>> /\ selected # <<L>>)
                /\ ~InSeq(IdxOf(k), tally.skipped_questions)
                /\ InSeq(IdxOf(k), tally.wrong_questions) =>
                      \E i \in 1..Len(tally.wrong_items) :
                          /\ tally.wrong_items[i].index = IdxOf(k)
                          /\ tally.wrong_items[i].selected_labels = selected
                          /\ tally.wrong_items[i].correct_label = L
                /\ gpc = "done" => ResultIsTally

\* a wrong pair whose submission highlights the key's label together with another one
C4_Witness ==
    /\ gpc = "done"
    /\ \E k \in 1..Len(compared_pairs) :
          /\ Len(KeyOf(k).highlighted_labels) = 1
          /\ Len(SubOf(k).highlighted_labels) = 2
          /\ InSeq(KeyOf(k).highlighted_labels[1], SubOf(k).highlighted_labels)
          /\ InSeq(IdxOf(k), result.wrong_questions)

\* the roles after role-swap detection are exchanged exactly when the flag is set
RolesFollowFlag ==
    IF auto_swapped_files
    THEN /\ submission_questions = given_answer
         /\ answer_questions = given_submission
         /\ submission_file = "answer"
         /\ answer_file = "submission"
    ELSE /\ submission_questions = given_submission
         /\ answer_questions = given_answer
         /\ submission_file = "submission"
         /\ answer_file = "answer"

\* C5 as stated: the roles are swapped and the flag set iff single(key) = 0 and
\* single(submission) >= max(3, 0.6 * overlap) with the exact product, for all lengths.
C5_ExactThreshold ==
    gpc # "swap" =>
        /\ RolesFollowFlag
        /\ auto_swapped_files <=>
              LET overlap == Min(Len(given_submission), Len(given_answer))
              IN  /\ SingleCount(given_answer) = 0
                  /\ SingleCount(given_submission) >= 3
                  /\ 10 * SingleCount(given_submission) >= 6 * overlap

\* C5 amended: the roles are swapped and the flag set iff neither sequence is empty,
\* single(key) = 0 and single(submission) >= max(3, floor(0.6 * overlap)).
C5_TruncatedThreshold ==
    gpc # "swap" =>
        /\ RolesFollowFlag
        /\ auto_swapped_files <=>
              LET overlap == Min(Len(given_submission), Len(given_answer))
              IN  /\ overlap > 0
                  /\ SingleCount(given_answer) = 0
                  /\ SingleCount(given_submission) >= 3
                  /\ SingleCount(given_submission) >= (6 * overlap) \div 10

\* a swap with 3 single-highlighted questions out of an overlap of 6 (50%)
C5_Witness ==
    /\ gpc = "done"
    /\ result.auto_swapped_files
    /\ SingleCount(given_submission) = 3
    /\ Min(Len(given_submission), Len(given_answer)) = 6

\* an empty key facing a submission with 3 or more single-highlighted questions:
\* nothing is swapped
C5_NoSwapEmptyKey ==
    /\ gpc = "done"
    /\ ~result.auto_swapped_files
    /\ Len(given_answer) = 0
    /\ SingleCount(given_submission) >= 3

\* C6: when the roles are swapped, the GradingResult is the one of grading with the
\* two inputs exchanged (a call that triggers no swap), file names included, except
\* for the flag.
C6_SwapExchangesRoles ==
    (gpc = "done" /\ result.auto_swapped_files) =>
        LET other == grade_quiz_files(given_answer, given_submission, "answer", "submission")
        IN  /\ ~other.auto_swapped_files
            /\ result = [other EXCEPT !.auto_swapped_files = TRUE]
            /\ result.submission_file = "answer"
            /\ result.answer_file = "submission"
            /\ \A k \in 1..Len(compared_pairs) :
                  /\ SubOf(k) = given_answer[compared_pairs[k][1] + 1]
                  /\ KeyOf(k) = given_submission[compared_pairs[k][2] + 1]

\* a swapped grading of sequences of different lengths with unanswered pairs
C6_Witness ==
    /\ gpc = "done"
    /\ result.auto_swapped_files
    /\ Len(given_submission) # Len(given_answer)
    /\ result.unanswered_count > 0
    /\ result.skipped_count > 0

\* C7 as stated: after the pairing, the pairs are the positional ones, and
\* compared_questions the shorter length, exactly when twice the number of
\* content-paired questions is below the submission's length; they are the content
\* pairs otherwise.
C7_HalfThreshold ==
    gpc \in {"classify", "done"} =>
        LET content == ContentPairs(submission_questions, answer_questions)
        IN  IF 2 * Len(content) < Len(submission_questions)
            THEN /\ compared_pairs =
                        [i \in 1..Min(Len(submission_questions), Len(answer_questions)) |->
                            <<i - 1, i - 1>>]
                 /\ compared_questions = Min(Len(submission_questions), Len(answer_questions))
            ELSE /\ compared_pairs = content
                 /\ compared_questions = Len(content)

\* C7 amended: the same with the threshold max(1, floor(len(submission) / 2)).
C7_TruncatedHalfThreshold ==
    gpc \in {"classify", "done"} =>
        LET content == ContentPairs(submission_questions, answer_questions)
            n == Len(submission_questions)
        IN  IF Len(content) < (IF n \div 2 >= 1 THEN n \div 2 ELSE 1)
            THEN /\ compared_pairs =
                        [i \in 1..Min(Len(submission_questions), Len(answer_questions)) |->
                            <<i - 1, i - 1>>]
                 /\ compared_questions = Min(Len(submission_questions), Len(answer_questions))
            ELSE /\ compared_pairs = content
                 /\ compared_questions = Len(content)

\* a submission of 3 questions with 1 content pair, which is kept although the
\* positional pairs are others
C7_Witness ==
    /\ gpc = "done"
    /\ Len(submission_questions) = 3
    /\ Len(compared_pairs) = 1
    /\ compared_pairs = ContentPairs(submission_questions, answer_questions)
    /\ compared_pairs # PositionalPairs(submission_questions, answer_questions)

\* a fallback: no content pair for 3 submission questions and 2 key questions
C7_FallbackTaken ==
    /\ gpc = "done"
    /\ Len(submission_questions) = 3
    /\ Len(answer_questions) = 2
    /\ ContentPairs(submission_questions, answer_questions) = <<>>
    /\ compared_pairs = <<<<0, 0>>, <<1, 1>>>>

\* the 0-based key indices paired by the first k - 1 pairs
PairedBefore(k) == {compared_pairs[j][2] : j \in 1..(k - 1)}

SameKey(sq, aq) == normalize_question_key(sq.question) = normalize_question_key(aq.question)

\* whether the content pairs were kept (no positional fallback)
ContentKept ==
    Len(ContentPairs(submission_questions, answer_questions))
        >= MinimumTextMatches(Len(submission_questions))

\* C8: during content pairing, the pairs are in submission order; each pairs a
\* submission question with the lowest-index key question of the same normalized key
\* not paired before; a submission question gone through without a pair had no such
\* key question left; when the content pairs are kept, an unpaired submission question
\* is in no list and in no count. The normalized key strips the numbering, collapses
\* white space and lower-cases.
C8_FirstUnusedSameKey ==
    /\ normalize_question_key(TextA1) = <<"x", " ", "y">>
    /\ normalize_question_key(TextA2) = <<"x", " ", "y">>
    /\ normalize_question_key(TextB) = <<"z">>
    /\ gpc = "pair" =>
          /\ \A k \in 1..Len(compared_pairs) :
                LET si == compared_pairs[k][1]
                    ai == compared_pairs[k][2]
                IN  /\ si < submission_index
                    /\ \A j \in 1..(k - 1) : compared_pairs[j][1] < si
                    /\ SameKey(submission_questions[si + 1], answer_questions[ai + 1])
                    /\ ai \notin PairedBefore(k)
                    /\ \A a \in 0..(ai - 1) :
                          SameKey(submission_questions[si + 1], answer_questions[a + 1])
                              => a \in PairedBefore(k)
          /\ \A si \in 0..(submission_index - 1) :
                (\A k \in 1..Len(compared_pairs) : compared_pairs[k][1] # si) =>
                    \A a \in 0..(Len(answer_questions) - 1) :
                        SameKey(submission_questions[si + 1], answer_questions[a + 1]) =>
                            \E k \in 1..Len(compared_pairs) :
                                compared_pairs[k][2] = a /\ compared_pairs[k][1] < si
    /\ (gpc = "done" /\ ContentKept) =>
          /\ compared_pairs = ContentPairs(submission_questions, answer_questions)
          /\ \A si \in 0..(Len(submission_questions) - 1) :
                (\A k \in 1..Len(compared_pairs) : compared_pairs[k][1] # si) =>
                    /\ ~InSeq(si + 1, result.correct_questions)
                    /\ ~InSeq(si + 1, result.wrong_questions)
                    /\ ~InSeq(si + 1, result.unanswered_questions)
                    /\ ~InSeq(si + 1, result.skipped_questions)
          /\ result.correct_count + result.wrong_count + result.unanswered_count
                + result.skipped_count = Len(compared_pairs)
          /\ result.compared_questions = Len(compared_pairs)

\* content pairs kept, with a submission question left unpaired between two paired
\* ones, the second of which found the first key question of its key already taken
C8_Witness ==
    /\ gpc = "done"
    /\ ContentKept
    /\ Len(submission_questions) = 3
    /\ compared_pairs = <<<<0, 0>>, <<2, 1>>>>
    /\ SameKey(submission_questions[3], answer_questions[1])

RECURSIVE Ascending(_)
\* the numbers of the finite set S as an ascending list
Ascending(S) ==
    IF S = {} THEN <<>>
    ELSE LET lo == CHOOSE x \in S : \A y \in S : x <= y
         IN  <<lo>> \o Ascending(S \ {lo})

\* the two inputs hold the same questions, position by position, and every key
\* question has exactly one highlighted label
SameQuestionsSingleKey ==
    /\ Len(given_submission) = Len(given_answer)
    /\ \A i \in 1..Len(given_answer) :
          /\ SameKey(given_submission[i], given_answer[i])
          /\ Len(given_answer[i].highlighted_labels) = 1

\* C9: when key and submission hold the same n questions and every key question has
\* one highlighted label, compared = n, skipped = 0, unanswered counts the blank
\* submission questions, correct those whose single highlight is the key's, wrong the
\* rest, answered = correct + wrong, the lists holding the indices in ascending order;
\* the ten-question example gives correct=6, wrong=2, unanswered=2, skipped=0,
\* answered=8, compared=10 with lists [3..8], [9,10], [1,2].
C9_SameQuestionsCounts ==
    /\ (gpc = "done" /\ SameQuestionsSingleKey) =>
          LET n == Len(given_answer)
              blank == {i \in 1..n : given_submission[i].highlighted_labels = <<>>}
              right == {i \in 1..n : given_submission[i].highlighted_labels
                                        = given_answer[i].highlighted_labels}
              rest == (1..n) \ (blank \cup right)
          IN  /\ result.compared_questions = n
              /\ result.skipped_count = 0
              /\ result.skipped_questions = <<>>
              /\ result.unanswered_count = Cardinality(blank)
              /\ result.unanswered_questions = Ascending(blank)
              /\ result.correct_count = Cardinality(right)
              /\ result.correct_questions = Ascending(right)
              /\ result.wrong_count = Cardinality(rest)
              /\ result.wrong_questions = Ascending(rest)
              /\ result.answered_count = Cardinality(right) + Cardinality(rest)
              /\ ~result.auto_swapped_files
    /\ (gpc = "done" /\ <<given_submission, given_answer>> = TenQuestions) =>
          /\ result.correct_count = 6
          /\ result.wrong_count = 2
          /\ result.unanswered_count = 2
          /\ result.skipped_count = 0
          /\ result.answered_count = 8
          /\ result.compared_questions = 10
          /\ result.correct_questions = <<3, 4, 5, 6, 7, 8>>
          /\ result.wrong_questions = <<9, 10>>
          /\ result.unanswered_questions = <<1, 2>>

\* the ten-question example graded
C9_Witness ==
    /\ gpc = "done"
    /\ <<given_submission, given_answer>> = TenQuestions
    /\ SameQuestionsSingleKey

\* three same questions: one blank, one right, one with two highlights
C9_Small ==
    /\ gpc = "done"
    /\ SameQuestionsSingleKey
    /\ Len(given_answer) = 3
    /\ result.unanswered_count = 1
    /\ result.correct_count = 1
    /\ \E i \in 1..3 : Len(given_submission[i].highlighted_labels) = 2

\* the normalized keys of a sequence of questions
KeysOf(qs) == [i \in 1..Len(qs) |-> normalize_question_key(qs[i].question)]

\* the two inputs hold the same pairwise different normalized question texts
\* (at most MaxPerm of them: every order of the key is gone through)
SameDistinctTexts ==
    /\ Len(given_submission) = Len(given_answer)
    /\ Len(given_answer) <= MaxPerm
    /\ \A i, j \in 1..Len(given_answer) :
          /\ KeysOf(given_answer)[i] = KeysOf(given_answer)[j] => i = j
          /\ KeysOf(given_submission)[i] = KeysOf(given_submission)[j] => i = j
    /\ {KeysOf(given_answer)[i] : i \in 1..Len(given_answer)}
          = {KeysOf(given_submission)[i] : i \in 1..Len(given_submission)}

\* the counts and index lists of a GradingResult
Summary(r) ==
    <<r.compared_questions, r.correct_count, r.wrong_count, r.unanswered_count,
      r.answered_count, r.skipped_count, r.correct_questions, r.wrong_questions,
      r.unanswered_questions, r.skipped_questions>>

\* the counts alone
Counts(r) ==
    <<r.compared_questions, r.correct_count, r.wrong_count, r.unanswered_count,
      r.answered_count, r.skipped_count>>

\* grading the given submission against the given key reordered by p
GradedWithKey(p) ==
    grade_quiz_files(given_submission, Permuted(given_answer, p), "submission", "answer")

\* C10 as stated: with the same pairwise different normalized texts in both inputs,
\* every order of the key gives the same counts and the same index lists.
C10_KeyOrderIrrelevant ==
    (gpc = "done" /\ SameDistinctTexts) =>
        \A p \in Perms(Len(given_answer)) :
            LET other == GradedWithKey(p) IN Summary(other) = Summary(result)

\* C10 amended: the same when role-swap detection does not exchange the roles, each
\* submission question being paired with the key question of its normalized text;
\* when the roles are exchanged only the counts are the same for every order of the
\* given key.
C10_KeyOrderIrrelevantUnlessSwapped ==
    (gpc = "done" /\ SameDistinctTexts) =>
        /\ \A p \in Perms(Len(given_answer)) :
              LET other == GradedWithKey(p)
              IN  /\ Counts(other) = Counts(result)
                  /\ other.auto_swapped_files = result.auto_swapped_files
                  /\ ~result.auto_swapped_files => Summary(other) = Summary(result)
        /\ Len(compared_pairs) = Len(submission_questions)
        /\ \A k \in 1..Len(compared_pairs) :
              /\ compared_pairs[k][1] = k - 1
              /\ SameKey(SubOf(k), KeyOf(k))

\* three different questions, the key in another order than the submission, no swap,
\* with a correct, an unanswered and a skipped pair
C10_Witness ==
    /\ gpc = "done"
    /\ SameDistinctTexts
    /\ ~result.auto_swapped_files
    /\ Len(given_answer) = 3
    /\ KeysOf(given_answer) # KeysOf(given_submission)
    /\ result.correct_count > 0
    /\ result.unanswered_count > 0
    /\ result.skipped_count > 0

-----------------------------------------------------------------------------
(* Claims about finalize_answer and the state normalizer *)

Finalized == spc \in {"rows", "returned"}

BoldOptions(question) == {k \in 1..Len(question.options) : question.options[k].is_bold}

ColorsOf(question) == [k \in 1..Len(question.options) |-> question.options[k].color_int]

LabelsOf(question) == [k \in 1..Len(question.options) |-> question.options[k].label]

\* option k is the only one whose color differs from the color the others share
OddColor(question, k) ==
    LET others == (1..Len(question.options)) \ {k}
    IN  /\ \A j \in others : question.options[j].color_int # question.options[k].color_int
        /\ \A i, j \in others : question.options[i].color_int = question.options[j].color_int

\* C11: when exactly one of the four options is bold, answer_label is that option's
\* label, whatever the colors of the options are.
C11_BoldPriority ==
    Finalized =>
        \A i \in 1..Len(parsed_questions) :
            \A k \in 1..4 :
                BoldOptions(parsed_questions[i]) = {k}
                    => parsed_questions[i].answer_label = parsed_questions[i].options[k].label

\* one option is bold, another one, of another label, is the color minority, and the
\* answer is the bold one
C11_Witness ==
    /\ Finalized
    /\ LabelsOf(parsed_questions[1]) = <<"A", "B", "C", "D">>
    /\ BoldOptions(parsed_questions[1]) = {3}
    /\ ColorsOf(parsed_questions[1]) = <<0, 0, 0, 5>>
    /\ parsed_questions[1].answer_label = "C"
    /\ parsed_questions[1].options[3].emphasized
    /\ ~parsed_questions[1].options[4].emphasized

\* C12: when the number of bold options is not exactly one, answer_label is the label
\* of the only option whose color differs from the color of the three others, if
\* there is one, and None otherwise; color 0 counts like any other color: colors
\* [0,0,0,5] and [5,5,5,0] give the 4th option (D), [0,0,5,7] gives None.
C12_ColorMinority ==
    Finalized =>
        \A i \in 1..Len(parsed_questions) :
            LET question == parsed_questions[i]
            IN  Cardinality(BoldOptions(question)) # 1 =>
                    /\ \A k \in 1..4 :
                          OddColor(question, k)
                              => question.answer_label = question.options[k].label
                    /\ (~\E k \in 1..4 : OddColor(question, k))
                          => question.answer_label = None
                    /\ ColorsOf(question) \in {<<0, 0, 0, 5>>, <<5, 5, 5, 0>>}
                          => question.answer_label = question.options[4].label
                    /\ ColorsOf(question) = <<0, 0, 5, 7>>
                          => question.answer_label = None

\* two options are bold and only the 4th option has color 0: the answer is D
C12_Witness ==
    /\ Finalized
    /\ LabelsOf(parsed_questions[1]) = <<"A", "B", "C", "D">>
    /\ BoldOptions(parsed_questions[1]) = {1, 2}
    /\ ColorsOf(parsed_questions[1]) = <<5, 5, 5, 0>>
    /\ parsed_questions[1].answer_label = "D"

\* no option is bold and two options differ from the dominant color: no answer
C12_NoAnswer ==
    /\ Finalized
    /\ BoldOptions(parsed_questions[1]) = {}
    /\ ColorsOf(parsed_questions[1]) = <<0, 0, 5, 7>>
    /\ parsed_questions[1].answer_label = None

\* the most frequent color of the options and, among equally frequent ones, the color
\* of the earliest option
FirstMostFrequent(options) ==
    LET count(c) == Cardinality({k \in 1..Len(options) : options[k].color_int = c})
        most == {k \in 1..Len(options) :
                    \A j \in 1..Len(options) :
                        count(options[j].color_int) <= count(options[k].color_int)}
    IN  options[CHOOSE k \in most : \A j \in most : k <= j].color_int

\* whether the answer of a question and the highlighted labels of its row are those
\* that the dominant color gives
UsesDominant(question, row, dominant) ==
    LET options == question.options
        differing == SelectSeq(options, LAMBDA opt : opt.color_int # dominant)
        emphasis == SelectSeq(options,
                        LAMBDA opt : opt.is_bold
                                        \/ (opt.color_int # 0 /\ opt.color_int # dominant))
    IN  /\ Cardinality(BoldOptions(question)) # 1
              => question.answer_label
                    = IF Len(differing) = 1 THEN differing[1].label ELSE None
        /\ row.highlighted_labels = [k \in 1..Len(emphasis) |-> emphasis[k].label]

\* C13 (as claimed): the dominant color that finalize_answer and the state normalizer
\* use is the most frequent color of the four options and, among equally frequent
\* colors, the first one to reach the maximum frequency in option order (2 for
\* colors [1,2,2,1]).
C13_FirstToReachMaximum ==
    \A i \in 1..Len(rows) :
        UsesDominant(parsed_questions[i], rows[i],
                     first_to_reach_maximum(parsed_questions[i].options))

\* C13 (amended): the dominant color that finalize_answer and the state normalizer
\* use is the most frequent color of the four options and, among equally frequent
\* colors, the one that occurs first in option order (1 for colors [1,2,2,1]).
C13_FirstMostFrequent ==
    \A i \in 1..Len(rows) :
        UsesDominant(parsed_questions[i], rows[i],
                     FirstMostFrequent(parsed_questions[i].options))

\* for colors [1,2,2,1] the state normalizer has highlighted the options of color 2:
\* the dominant color it used is 1
C13_Witness ==
    /\ spc = "returned"
    /\ LabelsOf(parsed_questions[1]) = <<"A", "B", "C", "D">>
    /\ BoldOptions(parsed_questions[1]) = {}
    /\ ColorsOf(parsed_questions[1]) = <<1, 2, 2, 1>>
    /\ parsed_questions[1].answer_label = None
    /\ rows[1].highlighted_labels = <<"B", "C">>

\* the row of a question agrees with the highlighting rule
RowAgrees(question, row) ==
    LET options == question.options
        dominant == dominant_color(options)
    IN  /\ \A k \in 1..Len(options) :
              row.options[options[k].label].highlighted
                  <=> (options[k].is_bold
                          \/ (options[k].color_int # 0 /\ options[k].color_int # dominant))
        /\ \A a, b \in 1..Len(row.highlighted_labels) :
              a # b => row.highlighted_labels[a] # row.highlighted_labels[b]
        /\ \A l \in DOMAIN row.options :
              row.options[l].highlighted
                  <=> \E a \in 1..Len(row.highlighted_labels) : row.highlighted_labels[a] = l
        /\ \A a, b \in 1..Len(row.highlighted_labels) :
              a < b => \E j, k \in 1..Len(options) :
                          /\ j < k
                          /\ options[j].label = row.highlighted_labels[a]
                          /\ options[k].label = row.highlighted_labels[b]

\* C20: the state normalizer marks an option highlighted if and only if it is bold or
\* its color is non-zero and differs from the dominant color of the four options;
\* highlighted_labels holds the labels of the highlighted options, each once, in
\* option order, and agrees with the highlighted flag stored under each label.
C20_HighlightedLabels ==
    \A i \in 1..Len(rows) : RowAgrees(parsed_questions[i], rows[i])

\* the same, for the questions whose four options carry the labels A, B, C, D
C20_DistinctLabels ==
    \A i \in 1..Len(rows) :
        LabelsOf(parsed_questions[i]) = <<"A", "B", "C", "D">>
            => RowAgrees(parsed_questions[i], rows[i])

\* a row with several highlighted options built from a question of labels A, B, C, D
C20_Highlighted ==
    /\ spc = "returned"
    /\ LabelsOf(parsed_questions[1]) = <<"A", "B", "C", "D">>
    /\ rows[1].highlighted_labels = <<"B", "D">>
    /\ BoldOptions(parsed_questions[1]) = {2}
    /\ ColorsOf(parsed_questions[1]) = <<0, 0, 0, 7>>

-----------------------------------------------------------------------------
(* Claims about deduplicate_questions *)

\* C14: deduplicate_questions is idempotent: applied to its own output it returns
\* that output unchanged, the same questions in the same order.
C14_Idempotent ==
    dpc = "done" => deduped_twice = deduped_once

\* a list with duplicates was reduced to two questions or more, and the second
\* application returned the same list
C14_Witness ==
    /\ dpc = "done"
    /\ Len(deduped_once) < Len(duplicated)
    /\ Len(deduped_once) >= 2
    /\ deduped_twice = deduped_once

\* the white-space-collapsed, case-folded form of a text
Folded(text) == Lower(Strip(CollapseWhiteSpace(text)))

\* two questions have the same folded text and the same labels and folded option
\* texts, in the same order
SameFolded(a, b) ==
    /\ Folded(a.question) = Folded(b.question)
    /\ Len(a.options) = Len(b.options)
    /\ \A k \in 1..Len(a.options) :
          /\ a.options[k].label = b.options[k].label
          /\ Folded(a.options[k].text) = Folded(b.options[k].text)

RECURSIVE FirstOccurrences(_, _)
\* the questions of a list from index i on that no earlier question of the list equals
\* up to folding
FirstOccurrences(list, i) ==
    IF i > Len(list) THEN <<>>
    ELSE (IF \E j \in 1..(i - 1) : SameFolded(list[j], list[i])
          THEN <<>> ELSE <<list[i]>>) \o FirstOccurrences(list, i + 1)

\* C15: the output of deduplicate_questions is the subsequence of its input made of
\* the first occurrence of each distinct key (folded question text, ordered labels
\* and folded option texts); questions that differ only in answer_label, bold flags
\* or colors are collapsed and the earlier one is kept with its own answer_label.
C15_FirstOccurrences ==
    dpc \in {"second", "done"} => deduped_once = FirstOccurrences(duplicated, 1)

\* a question with answer B came first, the same question without an answer and with
\* another answer, and in other case and spacing, came later: only the first is kept
C15_Witness ==
    /\ dpc = "done"
    /\ Len(duplicated) = 3
    /\ duplicated[1].answer_label = "B"
    /\ duplicated[2].answer_label # "B"
    /\ duplicated[3].question # duplicated[1].question
    /\ deduped_once = <<duplicated[1]>>

-----------------------------------------------------------------------------
(* Claims about repair_fragmented_text *)

FragmentsTuyen == <<<<"T">>, <<"u">>, <<"y", "ể", "n">>>>

WordsKyThuatCo == <<<<"K", "ỹ">>, <<"t", "h", "u", "ậ", "t">>, <<"C", "ơ">>>>

\* C16 as stated: the tokens "T", "u", "yển" are collapsed into the single token
\* "Tuyển", and the tokens "Kỹ", "thuật", "Cơ" stay three separate tokens.
C16_CollapsedToTuyen ==
    rpc = "returned" =>
        /\ Split(fragmented) = FragmentsTuyen
              => Split(repaired) = <<<<"T", "u", "y", "ể", "n">>>>
        /\ Split(fragmented) = WordsKyThuatCo => Split(repaired) = WordsKyThuatCo

\* C16 amended: the tokens "T", "u", "yển" become the two tokens "Tu" and "yển" (the
\* three-letter token is not part of the joined run), and the tokens "Kỹ", "thuật",
\* "Cơ" stay three separate tokens.
C16_CollapsedToTuAndYen ==
    rpc = "returned" =>
        /\ Split(fragmented) = FragmentsTuyen
              => repaired = <<"T", "u", " ", "y", "ể", "n">>
        /\ Split(fragmented) = WordsKyThuatCo
              => repaired = <<"K", "ỹ", " ", "t", "h", "u", "ậ", "t", " ", "C", "ơ">>

\* "T u yển" was repaired
C16_Witness ==
    /\ rpc = "returned"
    /\ fragmented = <<"T", " ", "u", " ", "y", "ể", "n">>
    /\ repaired = <<"T", "u", " ", "y", "ể", "n">>

\* a purely alphabetic token of at most 2 letters
ShortToken(token) == AlphaToken(token) /\ Len(token) <= 2

\* the last index of the run of short tokens that starts at index i
RunEnd(tokens, i) ==
    CHOOSE j \in i..Len(tokens) :
        /\ \A k \in i..j : ShortToken(tokens[k])
        /\ (j = Len(tokens) \/ ~ShortToken(tokens[j + 1]))

\* a run is joined iff all its tokens are alphabetic, one has length 1 and the average
\* length is at most 2
Joinable(run) ==
    /\ \A k \in 1..Len(run) : AlphaToken(run[k])
    /\ \E k \in 1..Len(run) : Len(run[k]) = 1
    /\ SumLen(run) <= 2 * Len(run)

RECURSIVE RunsJoined(_, _)
\* the tokens from index i on, every maximal run of short tokens joined when joinable
RunsJoined(tokens, i) ==
    IF i > Len(tokens) THEN <<>>
    ELSE IF ~ShortToken(tokens[i]) THEN <<tokens[i]>> \o RunsJoined(tokens, i + 1)
    ELSE LET j == RunEnd(tokens, i)
             run == SubSeq(tokens, i, j)
         IN  (IF Joinable(run) THEN <<Concat(run)>> ELSE run)
                 \o RunsJoined(tokens, j + 1)

\* C19 as stated: for a text of any number of tokens, every maximal run of
\* consecutive tokens of at most 2 letters is joined into one token iff it is
\* joinable, else emitted unchanged; other tokens pass through unchanged.
C19_RunsJoinedAnyLength ==
    rpc = "returned" => Split(repaired) = RunsJoined(Split(fragmented), 1)

\* C19 amended: for a text of at least 3 tokens the runs are joined as stated; a text
\* of fewer than 3 tokens is returned unchanged.
C19_RunsJoinedFromThreeTokens ==
    rpc = "returned" =>
        IF Len(Split(fragmented)) < 3
        THEN repaired = fragmented
        ELSE repaired = Join(RunsJoined(Split(fragmented), 1))

\* a text of four tokens with a joined run, a word, and a run left as it was
C19_Witness ==
    /\ rpc = "returned"
    /\ Split(fragmented) = <<<<"u">>, <<"T">>, <<"y", "ể", "n">>, <<"C", "ơ">>>>
    /\ repaired = <<"u", "T", " ", "y", "ể", "n", " ", "C", "ơ">>

\* a text of two one-letter tokens is returned as it was
C19_TwoTokens ==
    /\ rpc = "returned"
    /\ fragmented = <<"T", " ", "u">>
    /\ repaired = fragmented

-----------------------------------------------------------------------------
(* Claims about the end of the stream in parse_questions *)

\* C17: parse_questions returns for every stream of styled lines, and a question in
\* progress with fewer than 4 options when the stream ends is dropped: every question
\* of the output has its 4 options, and the questions completed earlier in the
\* stream are still returned.
C17_DroppedAtEnd ==
    (ppc = "returned" /\ current # Nothing /\ Len(current.options) < 4) =>
        /\ \A i \in 1..Len(questions) : Len(questions[i].options) = 4
        /\ \A i \in 1..Len(returned) : Len(returned[i].options) = 4
        /\ returned = deduplicate_questions(questions)

\* a question was completed, another was in progress with an option when the stream
\* ended, and only the first was returned
C17_Witness ==
    /\ ppc = "returned"
    /\ current # Nothing
    /\ Len(current.options) \in 1..3
    /\ Len(questions) = 1
    /\ returned = questions
    /\ returned[1].question # current.question

-----------------------------------------------------------------------------
(* Claims about process_folder *)

\* the PDFs of the folder
FolderPdfs == {file \in DOMAIN input_dir : file.suffix = ".pdf"}

\* the documents of the output that belong to a PDF
DocumentsOf(pdf_file) == {document \in output_files : document.stem = pdf_file.stem}

\* C18: in process_folder a PDF that yields no question gets a result with status
\* "skipped" and question_count 0 and no output documents, and processing continues:
\* the returned list has exactly one result per PDF of the folder, in sorted file
\* order, and every PDF with a question is written and reported "ok".
C18_SkippedAndContinued ==
    fpc = "returned" =>
        /\ Len(results) = Cardinality(FolderPdfs)
        /\ {results[i].pdf : i \in 1..Len(results)} = FolderPdfs
        /\ \A i, j \in 1..Len(results) :
              i < j => Position(results[i].pdf) < Position(results[j].pdf)
        /\ \A i \in 1..Len(results) :
              IF input_dir[results[i].pdf] = 0
              THEN /\ results[i].status = "skipped"
                   /\ results[i].question_count = 0
                   /\ DocumentsOf(results[i].pdf) = {}
              ELSE /\ results[i].status = "ok"
                   /\ results[i].question_count = input_dir[results[i].pdf]
                   /\ Cardinality(DocumentsOf(results[i].pdf)) = 2

\* a folder of three PDFs whose second has no question: it is skipped, and the third
\* is written after it
C18_Witness ==
    /\ fpc = "returned"
    /\ Len(results) = 3
    /\ results[1].status = "ok"
    /\ results[2].status = "skipped"
    /\ results[3].status = "ok"
    /\ Cardinality(output_files) = 4

-----------------------------------------------------------------------------
(* Claims about the steps of parse_questions *)

\* the step processes a line that is not skipped
Processed == ppc = "lines" /\ lines_read' = lines_read + 1 /\ ~NoiseLine[line']

\* the step processes a question-start line
QuestionStartProcessed == Processed /\ QuestionStartLine[line']

\* the step processes an option line with a label among A to D
OptionProcessed ==
    /\ Processed
    /\ ~QuestionStartLine[line']
    /\ OptionMatchLine[line'] # Nothing

\* the step processes a continuation line
ContinuationProcessed ==
    /\ Processed
    /\ ~QuestionStartLine[line']
    /\ OptionMatchLine[line'] = Nothing

\* C21: when a question-start line is processed while the question in progress has
\* fewer than 4 options, that question is abandoned: nothing is emitted, and the new
\* question in progress has the line's text and position and no options.
C21_Abandoned ==
    [][(QuestionStartProcessed /\ current # Nothing /\ Len(current.options) < 4)
          => /\ questions' = questions
             /\ current'.question = Cleaned[line']
             /\ current'.options = <<>>
             /\ current'.page_number = line'.page_number
             /\ current'.x0 = line'.x0
             /\ current'.y0 = line'.y0]_vars

\* "2) y" was processed after other lines: it is the question in progress, without
\* options, and nothing was emitted
C21_Witness ==
    /\ ppc = "lines"
    /\ lines_read = 4
    /\ line = NumberedLineData
    /\ questions = <<>>
    /\ current # Nothing
    /\ current.question = <<"2", ")", " ", "y">>
    /\ current.options = <<>>
    /\ current.y0 = 60

\* the options of the question in progress
OptionsInProgress == IF current = Nothing THEN 0 ELSE Len(current.options)

\* C22: an option line processed when no question is in progress opens a question
\* with empty text; when the 4th option is captured the group is emitted only if its
\* question text is non-empty and discarded otherwise, and no question is in progress
\* afterwards; every emitted question has non-empty text.
C22_BareGroupDiscarded ==
    [][/\ (OptionProcessed /\ current = Nothing)
            => /\ current' # Nothing
               /\ current'.question = <<>>
               /\ Len(current'.options) = 1
       /\ (OptionProcessed /\ OptionsInProgress = 3)
            => /\ current' = Nothing
               /\ IF Strip(current.question) # <<>>
                  THEN /\ Len(questions') = Len(questions) + 1
                       /\ SubSeq(questions', 1, Len(questions)) = questions
                       /\ questions'[Len(questions')].question = Strip(current.question)
                  ELSE questions' = questions
       /\ \A i \in 1..Len(questions') : questions'[i].question # <<>>
       /\ \A i \in 1..Len(returned') : returned'[i].question # <<>>]_vars

\* four option lines were read and nothing else: the group without a question text
\* was discarded and no question is in progress
C22_Witness ==
    /\ ppc = "lines"
    /\ lines_read = 4
    /\ OptionMatchLine[line] # Nothing
    /\ current = Nothing
    /\ questions = <<>>

\* the distance between two coordinates
Distance(a, b) == IF a >= b THEN a - b ELSE b - a

\* the trailing option of the question in progress
TrailingOption == current.options[Len(current.options)]

\* one of two colors is 0 or both are equal
CompatibleColors(a, b) == a = 0 \/ b = 0 \/ a = b

\* the step merges the processed line into the trailing option as lines 331-334 do
MergedIntoTrailingOption ==
    /\ Len(current'.options) = Len(current.options)
    /\ current' =
          [current EXCEPT
              !.options[Len(current.options)].text =
                  repair_fragmented_text(
                      Strip(TrailingOption.text \o <<" ">> \o Cleaned[line'])),
              !.options[Len(current.options)].x0 = line'.x0,
              !.options[Len(current.options)].y0 = line'.y0]

\* the step processes a continuation line while the question in progress has options
ContinuationAfterOption ==
    ContinuationProcessed /\ current # Nothing /\ OptionsInProgress >= 1

\* C23: a continuation line processed while the question in progress has options is
\* merged into the trailing option only if it is on the option's page, at a vertical
\* distance of at most 26 and a horizontal distance of at most 48 from the option's
\* recorded position, in either direction, with compatible colors; when merged the
\* text is repaired again and the option takes the line's position; when rejected the
\* parser state is unchanged.
C23_MergedOnlyWhenNear ==
    [][ContinuationAfterOption =>
          /\ questions' = questions
          /\ current' = current \/ MergedIntoTrailingOption
          /\ current' # current =>
                /\ line'.page_number = TrailingOption.page_number
                /\ Distance(line'.y0, TrailingOption.y0) <= 26
                /\ Distance(line'.x0, TrailingOption.x0) <= 48
                /\ CompatibleColors(line'.color_int, TrailingOption.color_int)]_vars

\* what the code does: the gaps are signed, a line above or left of the option's
\* position passes at any distance
C23_MergedOnlyWhenNotFarBelow ==
    [][ContinuationAfterOption =>
          /\ questions' = questions
          /\ current' = current \/ MergedIntoTrailingOption
          /\ current' # current =>
                /\ line'.page_number = TrailingOption.page_number
                /\ line'.y0 - TrailingOption.y0 <= 26
                /\ line'.x0 - TrailingOption.x0 <= 48
                /\ CompatibleColors(line'.color_int, TrailingOption.color_int)]_vars

\* option C, recorded 100 down the page, has taken the text and the position of the
\* line "t u v", which is 25 down the page
C23_MergedFromAbove ==
    /\ ppc = "lines"
    /\ line = FragmentLineData
    /\ current # Nothing
    /\ OptionsInProgress >= 1
    /\ current.options[Len(current.options)].label = "C"
    /\ current.options[Len(current.options)].text = <<"c", "t", "u", "v">>
    /\ current.options[Len(current.options)].y0 = 25

\* the step goes from no question in progress to a question in progress
Created == current = Nothing /\ current' # Nothing

\* a continuation line processed while a question is in progress leaves that question
\* in progress, with the options it has, and emits nothing
SameInProgress ==
    (ContinuationProcessed /\ current # Nothing) =>
        /\ current' # Nothing
        /\ Len(current'.options) = Len(current.options)
        /\ current'.page_number = current.page_number
        /\ SubSeq(current'.question, 1, Len(current.question)) = current.question
        /\ questions' = questions

\* C24 as stated: a question in progress is created only when a question-start line
\* is processed or an option line is processed with no question in progress; a
\* continuation line never creates one, whether or not one is in progress.
C24_CreatedByStartOrOption ==
    [][/\ Created => (QuestionStartProcessed \/ OptionProcessed)
       /\ SameInProgress]_vars

\* C24 amended: a question in progress is created only when a question-start line is
\* processed or when an option line or a continuation line is processed with no
\* question in progress; a continuation line processed with no question in progress
\* creates one with the line's text and position and no options, and one processed
\* while a question is in progress never creates a question.
C24_CreatedByStartOptionOrFirstText ==
    [][/\ Created =>
             (QuestionStartProcessed \/ OptionProcessed \/ ContinuationProcessed)
       /\ (ContinuationProcessed /\ current = Nothing)
             => /\ current' # Nothing
                /\ current'.question = Cleaned[line']
                /\ current'.options = <<>>
                /\ current'.page_number = line'.page_number
                /\ current'.x0 = line'.x0
                /\ current'.y0 = line'.y0
                /\ questions' = questions
       /\ SameInProgress]_vars

\* the first line of the stream was "t u v": it is the question in progress
C24_Witness ==
    /\ ppc = "lines"
    /\ lines_read = 1
    /\ line = FragmentLineData
    /\ current # Nothing
    /\ current.question = <<"t", " ", "u", " ", "v">>
    /\ current.options = <<>>

\* C26: after every processed line the parser holds at most one question in
\* progress, with at most 3 options: a question is emitted and the accumulator
\* cleared in the step that captures its 4th option, and a question already emitted
\* is never modified by later lines.
C26_AtMostThreeOptionsInProgress ==
    [][/\ current' = Nothing \/ Len(current'.options) <= 3
       /\ Len(questions') >= Len(questions)
       /\ SubSeq(questions', 1, Len(questions)) = questions
       /\ Len(questions') > Len(questions)
             => /\ OptionProcessed
                /\ OptionsInProgress = 3
                /\ current' = Nothing
                /\ Len(questions') = Len(questions) + 1
                /\ Len(questions'[Len(questions')].options) = 4]_vars

\* the fifth line of the stream was the 4th option of a question: the question is
\* emitted and no question is in progress
C26_Witness ==
    /\ ppc = "lines"
    /\ lines_read = 5
    /\ OptionMatchLine[line] # Nothing
    /\ current = Nothing
    /\ Len(questions) = 1
    /\ Len(questions[1].options) = 4

-----------------------------------------------------------------------------
(* Claims about the pairs and the lists of grade_quiz_files *)

\* C27: the pairs used for classification form a partial one-to-one matching: with
\* content pairing and with the positional fallback alike, every submission index
\* and every key index occurs in at most one pair, so compared_questions is at most
\* min(len(submission), len(key)).
C27_OneToOnePairs ==
    /\ gpc \in {"pair", "classify", "done"} =>
          /\ \A k \in 1..Len(compared_pairs) :
                /\ compared_pairs[k][1] \in 0..(Len(submission_questions) - 1)
                /\ compared_pairs[k][2] \in 0..(Len(answer_questions) - 1)
          /\ \A j, k \in 1..Len(compared_pairs) :
                j # k => /\ compared_pairs[j][1] # compared_pairs[k][1]
                         /\ compared_pairs[j][2] # compared_pairs[k][2]
    /\ gpc \in {"classify", "done"} =>
          /\ compared_questions = Len(compared_pairs)
          /\ compared_questions <= Min(Len(submission_questions), Len(answer_questions))
    /\ gpc = "done" =>
          result.compared_questions
              <= Min(Len(given_submission), Len(given_answer))

\* content pairs kept for two submission questions of the same key, each paired with
\* a key question of its own
C27_Witness ==
    /\ gpc = "done"
    /\ ContentKept
    /\ Len(compared_pairs) >= 2
    /\ SameKey(submission_questions[compared_pairs[1][1] + 1],
               submission_questions[compared_pairs[2][1] + 1])
    /\ compared_pairs[1][2] # compared_pairs[2][2]

\* the numbers of a list
Members(seq) == {seq[i] : i \in 1..Len(seq)}

StrictlyAscending(seq) == \A i \in 1..(Len(seq) - 1) : seq[i] < seq[i + 1]

\* the items hold one record per entry of the list, with its index, in its order
ItemsFollow(items, list) ==
    /\ Len(items) = Len(list)
    /\ \A i \in 1..Len(list) : items[i].index = list[i]

\* C28: in every GradingResult the lists correct_questions, wrong_questions,
\* unanswered_questions and skipped_questions are pairwise disjoint, their union is
\* the set of the 1-based indices of the paired submission questions, each list is
\* strictly ascending and as long as its count, and wrong_items and unanswered_items
\* hold one record per entry of their list, with the same index, in the same order.
C28_ListsPartitionPairs ==
    gpc = "done" =>
        LET c == Members(result.correct_questions)
            w == Members(result.wrong_questions)
            u == Members(result.unanswered_questions)
            s == Members(result.skipped_questions)
        IN  /\ c \cap w = {} /\ c \cap u = {} /\ c \cap s = {}
            /\ w \cap u = {} /\ w \cap s = {} /\ u \cap s = {}
            /\ c \cup w \cup u \cup s
                  = {compared_pairs[k][1] + 1 : k \in 1..Len(compared_pairs)}
            /\ StrictlyAscending(result.correct_questions)
            /\ StrictlyAscending(result.wrong_questions)
            /\ StrictlyAscending(result.unanswered_questions)
            /\ StrictlyAscending(result.skipped_questions)
            /\ Len(result.correct_questions) = result.correct_count
            /\ Len(result.wrong_questions) = result.wrong_count
            /\ Len(result.unanswered_questions) = result.unanswered_count
            /\ Len(result.skipped_questions) = result.skipped_count
            /\ ItemsFollow(result.wrong_items, result.wrong_questions)
            /\ ItemsFollow(result.unanswered_items, result.unanswered_questions)

\* a result with a pair whose key index differs from its submission index, and with
\* wrong answers among two or more wrong or unanswered questions
C28_Witness ==
    /\ gpc = "done"
    /\ \E k \in 1..Len(compared_pairs) : compared_pairs[k][1] # compared_pairs[k][2]
    /\ result.wrong_count + result.unanswered_count >= 2
    /\ result.wrong_count >= 1
    /\ Len(result.wrong_items) = result.wrong_count

-----------------------------------------------------------------------------
(* Claims about match_option_line *)

Punctuation == {".", ":", ")", "-"}

\* the candidate starts with one of the letters, then one of the separators, and has
\* text after it
OptionForm(letters, separators) ==
    /\ Len(candidate_text) >= 3
    /\ candidate_text[1] \in letters
    /\ candidate_text[2] \in separators
    /\ \E k \in 3..Len(candidate_text) : candidate_text[k] # " "

\* the candidate was classified as an option line with the upper-cased label
OptionWithLabel ==
    /\ candidate_match # Nothing
    /\ candidate_match.label \in {"A", "B", "C", "D"}
    /\ LowerChar(candidate_match.label) = LowerChar(candidate_text[1])
    /\ candidate_match.text # <<>>

\* C25 as stated: a line that starts with a letter a-d or A-D followed by '.', ':',
\* ')', '-' or a single space and then text is classified as an option line with the
\* upper-cased label, the same way for the lower-case and the upper-case letter.
C25_CaseInsensitive ==
    (mpc = "returned"
        /\ OptionForm({"a", "b", "c", "d", "A", "B", "C", "D"}, Punctuation \cup {" "}))
      => OptionWithLabel

\* C25 amended: a line that starts with a letter A-D followed by '.', ':', ')', '-' or
\* a single space and then text, or with a letter a-d followed by '.', ':', ')' or '-'
\* and then text, is classified as an option line with the upper-cased label; a line
\* that starts with a letter a-d followed by a space is not an option line.
C25_LowerCaseNeedsPunctuation ==
    mpc = "returned" =>
        /\ OptionForm({"A", "B", "C", "D"}, Punctuation \cup {" "}) => OptionWithLabel
        /\ OptionForm({"a", "b", "c", "d"}, Punctuation) => OptionWithLabel
        /\ OptionForm({"a", "b", "c", "d"}, {" "}) => candidate_match = Nothing

\* "b x y" was not classified as an option line
C25_Witness ==
    /\ mpc = "returned"
    /\ candidate_text = <<"b", " ", "x", " ", "y">>
    /\ candidate_match = Nothing

\* "b) x y" and "B x y" were
C25_Matched ==
    /\ mpc = "returned"
    /\ candidate_text \in {<<"b", ")", "x", " ", "y">>, <<"B", " ", "x", " ", "y">>}
    /\ candidate_match = [label |-> "B", text |-> <<"x", " ", "y">>]

-----------------------------------------------------------------------------
(* Claims about the background actions of the application *)

\* the worker thread was started and has not ended
WorkerRunning == wpc \in {"try", "except", "finally"}

Scheduled(scheduled) == \E i \in 1..Len(after_queue) : after_queue[i] = scheduled

\* C29: every background action that is started disables the buttons before its
\* worker thread starts, and once the worker has ended, after a return or a raise,
\* set_running(False) is eventually run by the event loop: the buttons do not stay
\* disabled for ever after a finished action.
C29_ButtonsEnabledAgain ==
    /\ [](WorkerRunning => buttons = "disabled")
    /\ []((wpc = "ended" /\ buttons = "disabled") => Scheduled(SetRunningCallback))
    /\ (wpc = "ended") ~> (buttons = "normal")

\* an action that raised has ended and the buttons are enabled again
C29_Witness ==
    /\ wpc = "ended"
    /\ outcome \in Messages
    /\ after_queue = <<>>
    /\ buttons = "normal"

\* the callback that shows the error has run
ErrorCallbackRan ==
    /\ outcome \in Messages
    /\ wpc \in {"except", "finally", "ended"}
    /\ ~Scheduled(ShowErrorCallback)

\* C30: when a background action raises in its worker thread, the callback scheduled
\* on the event loop shows an error dialog with the exception's message: the
\* exception is still available to the callback when it runs.
C30_ErrorDialogShown ==
    ErrorCallbackRan => (dialog = outcome /\ callback_exception = None)

\* the callback ran after the except block had ended: no dialog, a NameError
C30_NameError ==
    /\ ErrorCallbackRan
    /\ wpc = "ended"
    /\ buttons = "normal"
    /\ dialog = None
    /\ callback_exception = "NameError"

\* the callback ran before the except block ended: the dialog has the message
C30_ShownInTime ==
    /\ ErrorCallbackRan
    /\ dialog = outcome
    /\ callback_exception = None

====
